---- MODULE Spec2Model ----
(***************************************************************************)
(* A model of mongodbforms/documents.py: the binding of mongoengine        *)
(* documents to Django forms (field description, instance construction,    *)
(* validation exclusions, uniqueness checks, GridFS file fields, formsets).*)
(***************************************************************************)
EXTENDS Integers, Sequences, FiniteSets, TLC

VARIABLES
    formClass,       \* the form class in use: document schema and Meta options
    store,     \* the document collection: a set of stored documents
    parent,    \* the parent document of an embedded form
    form,      \* the form of the request being served
    outcome,   \* what the last call on the form did
    fd,        \* a call of fields_for_document: its arguments and its result
    blobs,     \* the GridFS namespace: a set of [grid_id, filename]
    nextId,    \* the next ObjectId the database hands out
    upl,       \* the uploads put so far: <<[name, filename, before]>>; under
               \* SpecConstruct the steps of the call of construct_instance
    inserted,  \* the instances saved as new documents and not saved over
               \* since: a set of [pk, data]
    formset    \* the formset of the request being served

vars == <<formClass, store, parent, form, outcome, fd, blobs, nextId, upl, inserted,
          formset>>

----------------------------------------------------------------------------
(* Bounds *)

MaxListLen == 2     \* longest Meta.fields / Meta.exclude list drawn
MaxUploads == 2     \* uploads put in one behaviour of SpecName
MaxId == 2          \* ObjectIds the database hands out in one behaviour
MaxComments == 2    \* longest list of embedded documents a parent gets to
MaxRefs == 2        \* longest list of references a submission carries
MaxElements == 3    \* longest list of embedded documents a formset starts from
MaxExtra == 2       \* most forms a submission carries past the parent's list
MaxFiles == 2       \* longest list of uploads cleaned for a list of files
MaxDocuments == 2   \* most documents in the queryset of a formset

----------------------------------------------------------------------------
(* Python values *)

\* an optional list argument (fields=None, exclude=None): None or a list
None == [isNone |-> TRUE, names |-> <<>>]
Some(names) == [isNone |-> FALSE, names |-> names]

\* truth value of an optional list: None and the empty list are false
Truthy(opt) == ~opt.isNone /\ opt.names # <<>>

\* name in list
Contains(opt, name) == \E i \in 1..Len(opt.names) : opt.names[i] = name

SeqToSet(s) == {s[i] : i \in 1..Len(s)}

\* all lists over S of length at most n
ListsUpTo(S, n) == UNION {[1..k -> S] : k \in 0..n}

\* the orderings of a list
Orderings(s) ==
    {[i \in 1..Len(s) |-> s[p[i]]] : p \in Permutations(1..Len(s))}

----------------------------------------------------------------------------
(* Document schemas: document._fields in the order of _fields_ordered *)

SchemaField(name, type, elem, required, unique, unique_with) ==
    [name |-> name, cls |-> type, elem |-> elem, required |-> required,
     unique |-> unique, unique_with |-> unique_with]

\* list.models.Item
Item == <<
    SchemaField("id", "ObjectIdField", "", FALSE, FALSE, <<>>),
    SchemaField("user", "ReferenceField", "", FALSE, FALSE, <<>>),
    SchemaField("text", "StringField", "", FALSE, FALSE, <<>>),
    SchemaField("picture", "FileField", "", FALSE, FALSE, <<>>),
    SchemaField("created", "DateTimeField", "", FALSE, FALSE, <<>>) >>

\* a document with a required unique field and an optional unique field
Article == <<
    SchemaField("id", "ObjectIdField", "", FALSE, FALSE, <<>>),
    SchemaField("title", "StringField", "", TRUE, TRUE, <<>>),
    SchemaField("slug", "StringField", "", FALSE, TRUE, <<>>) >>

\* a document with a required unique field and a file
Photo == <<
    SchemaField("id", "ObjectIdField", "", FALSE, FALSE, <<>>),
    SchemaField("title", "StringField", "", TRUE, TRUE, <<>>),
    SchemaField("picture", "FileField", "", FALSE, FALSE, <<>>) >>

\* a document whose tag is unique together with its list of references
Tagged == <<
    SchemaField("id", "ObjectIdField", "", FALSE, FALSE, <<>>),
    SchemaField("tag", "StringField", "", FALSE, TRUE, <<"refs">>),
    SchemaField("refs", "ListField", "ReferenceField", FALSE, FALSE, <<>>) >>

\* a document with every shape of file field; a file comes before a field
\* that is no file
Album == <<
    SchemaField("id", "ObjectIdField", "", FALSE, FALSE, <<>>),
    SchemaField("cover", "FileField", "", FALSE, FALSE, <<>>),
    SchemaField("title", "StringField", "", FALSE, FALSE, <<>>),
    SchemaField("pictures", "ListField", "FileField", FALSE, FALSE, <<>>),
    SchemaField("files", "MapField", "FileField", FALSE, FALSE, <<>>),
    SchemaField("caption", "StringField", "", FALSE, FALSE, <<>>) >>

\* an embedded document: no id, a required and an optional field
Comment == <<
    SchemaField("text", "StringField", "", TRUE, FALSE, <<>>),
    SchemaField("note", "StringField", "", FALSE, FALSE, <<>>) >>

FieldNames(document) == {document[i].name : i \in 1..Len(document)}

\* document._fields.get(name)
FieldOf(document, name) ==
    document[CHOOSE i \in 1..Len(document) : document[i].name = name]

----------------------------------------------------------------------------
(* fields_for_document *)

NoFormField == [none |-> TRUE, required |-> FALSE]

\* field_generator.generate(f): the form field of a schema field, or nothing
\* for the fields the generator does not handle
generate(generator, f) ==
    IF f.name \in generator THEN NoFormField
    ELSE [none |-> FALSE, required |-> f.required]

\* SortedDict(field_list): keys keep the place of their first occurrence and
\* the value of their last
RECURSIVE SortedDict(_)
SortedDict(field_list) ==
    IF field_list = <<>> THEN <<>>
    ELSE LET n == Len(field_list)
             last == field_list[n]
             rest == SortedDict(SubSeq(field_list, 1, n - 1))
         IN IF \E i \in 1..Len(rest) : rest[i].name = last.name
            THEN [i \in 1..Len(rest) |->
                     IF rest[i].name = last.name THEN last ELSE rest[i]]
            ELSE Append(rest, last)

\* a plausible slip: the result follows the order of Meta.fields, as Django's
\* fields_for_model does
RECURSIVE fields_for_document_loop_byfields(_, _, _, _, _, _)
fields_for_document_loop_byfields(document, i, fields, exclude, generator, field_list) ==
    IF ~Truthy(fields) THEN
        IF i > Len(document) THEN field_list
        ELSE LET f == document[i]
                 formfield == generate(generator, f)
                 skip == \/ f.cls = "ObjectIdField"
                         \/ Truthy(exclude) /\ Contains(exclude, f.name)
                         \/ formfield.none
             IN fields_for_document_loop_byfields(document, i + 1, fields, exclude, generator,
                    IF skip THEN field_list
                    ELSE Append(field_list, [name |-> f.name, field |-> formfield]))
    ELSE
        IF i > Len(fields.names) THEN field_list
        ELSE LET name == fields.names[i]
                 known == name \in FieldNames(document)
                 f == FieldOf(document, name)
                 skip == \/ ~known
                         \/ f.cls = "ObjectIdField"
                         \/ Truthy(exclude) /\ Contains(exclude, name)
                         \/ generate(generator, f).none
             IN fields_for_document_loop_byfields(document, i + 1, fields, exclude, generator,
                    IF skip THEN field_list
                    ELSE Append(field_list, [name |-> name, field |-> generate(generator, f)]))

\* the loop over document._fields_ordered, from position i on
RECURSIVE fields_for_document_loop(_, _, _, _, _, _)
fields_for_document_loop(document, i, fields, exclude, generator, field_list) ==
    IF i > Len(document) THEN field_list
    ELSE LET f == document[i]
             formfield == generate(generator, f)
         IN IF f.cls = "ObjectIdField"
            THEN fields_for_document_loop(document, i + 1, fields, exclude, generator, field_list)
            ELSE IF Truthy(fields) /\ ~Contains(fields, f.name)
            THEN fields_for_document_loop(document, i + 1, fields, exclude, generator, field_list)
            ELSE IF Truthy(exclude) /\ Contains(exclude, f.name)
            THEN fields_for_document_loop(document, i + 1, fields, exclude, generator, field_list)
            ELSE IF ~formfield.none
            THEN fields_for_document_loop(document, i + 1, fields, exclude, generator,
                     Append(field_list, [name |-> f.name, field |-> formfield]))
            ELSE fields_for_document_loop(document, i + 1, fields, exclude, generator, field_list)

fields_for_document(document, fields, exclude, generator) ==
    SortedDict(fields_for_document_loop(document, 1, fields, exclude, generator, <<>>))

\* the keys of a SortedDict, in order
Keys(sorted_dict) == [i \in 1..Len(sorted_dict) |-> sorted_dict[i].name]

----------------------------------------------------------------------------
(* _get_unique_filename over GridFS *)

\* the names uploads arrive under
UploadNames == {"photo.jpg", "photo_1.jpg", "photo"}

\* os.path.splitext
splitext(name) ==
    CASE name = "photo.jpg" -> <<"photo", ".jpg">>
      [] name = "photo_1.jpg" -> <<"photo_1", ".jpg">>
      [] name = "photo" -> <<"photo", "">>

\* "%s_%s%s" % (file_root, count, file_ext)
Suffixed(file_root, count, file_ext) ==
    file_root \o "_" \o ToString(count) \o file_ext

\* fs.exists(filename=name)
exists(fs, name) == \E b \in fs : b.filename = name

\* a plausible slip: the suffix is put on the name of the previous round
RECURSIVE _get_unique_filename_loop_chained(_, _, _, _, _)
_get_unique_filename_loop_chained(fs, name, file_root, file_ext, count) ==
    IF exists(fs, name)
    THEN _get_unique_filename_loop_chained(fs, Suffixed(file_root, count, file_ext),
             Suffixed(file_root, count, ""), file_ext, count + 1)
    ELSE name

\* while fs.exists(filename=name): name = root_count.ext
RECURSIVE _get_unique_filename_loop(_, _, _, _, _)
_get_unique_filename_loop(fs, name, file_root, file_ext, count) ==
    IF exists(fs, name)
    THEN _get_unique_filename_loop(fs, Suffixed(file_root, count, file_ext),
             file_root, file_ext, count + 1)
    ELSE name

_get_unique_filename(fs, name) ==
    _get_unique_filename_loop(fs, name, splitext(name)[1], splitext(name)[2], 1)

\* fs.put(..., filename=filename): a new blob under a fresh id
put(fs, grid_id, filename) == fs \cup {[grid_id |-> grid_id, filename |-> filename]}

----------------------------------------------------------------------------
(* Python and mongoengine values *)

NoPk == 0                            \* pk is None: the document is not stored
PyNone == "None"                     \* None where a string is expected
EmptyProxy == [grid_id |-> NoPk]     \* a GridFSProxy without a file
NoUpload == [kind |-> "none", name |-> "", grid_id |-> NoPk]
Upload(name) == [kind |-> "upload", name |-> name, grid_id |-> NoPk]
Handle(proxy) == [kind |-> "proxy", name |-> "", grid_id |-> proxy.grid_id]

NON_FIELD_ERRORS == "__all__"

IsFileBearing(f) ==
    \/ f.cls = "FileField"
    \/ f.cls \in {"MapField", "ListField"} /\ f.elem = "FileField"

\* the value of a field on a fresh instance
Default(f) ==
    CASE f.cls = "ObjectIdField" -> NoPk
      [] f.cls = "ListField" -> <<>>
      [] f.cls = "MapField" -> {}
      [] f.cls = "FileField" -> EmptyProxy
      [] OTHER -> PyNone

\* instance = instance(): a fresh document
Defaults(document) ==
    [n \in FieldNames(document) |-> Default(FieldOf(document, n))]

\* value in EMPTY_VALUES, for the value of a document field
IsEmptyValue(f, value) ==
    CASE f.cls = "ObjectIdField" -> value = NoPk
      [] f.cls = "ListField" -> value = <<>>
      [] f.cls = "FileField" -> FALSE
      [] OTHER -> value \in {PyNone, ""}

\* value in EMPTY_VALUES, for a cleaned value
IsEmptyCleaned(f, value) ==
    CASE f.cls = "ListField" -> value = <<>>
      [] f.cls = "FileField" -> value.kind = "none"
      [] OTHER -> value \in {PyNone, ""}

\* what cleaned_data.get(name, None) gives for a name without cleaned value
CleanedNone(f) ==
    CASE f.cls \in {"ListField", "MapField"} -> <<>>
      [] f.cls = "FileField" -> NoUpload
      [] OTHER -> PyNone

\* f.validate(value) raises ValidationError: the value is one the form field
\* lets through and the document field rejects, or is no string at all
ValidateFails(f, value) ==
    f.cls = "StringField" /\ value \in {"bad", PyNone}

\* instance.clean() raises ValidationError: an Article's slug may not repeat
\* its title
CleanFails(document, data) ==
    /\ document = Article
    /\ data["title"] = data["slug"]
    /\ data["title"] \notin {PyNone, ""}

----------------------------------------------------------------------------
(* Form classes: DocumentFormMetaclass.__new__ and ModelFormOptions *)

\* new_class.base_fields: the document's form fields, updated with the
\* declared ones
base_fields(document, fields, exclude, declared, generator) ==
    SortedDict(fields_for_document(document, fields, exclude, generator) \o declared)

\* none_document_fields: the keys of fields whose value is no form field
none_document_fields(fields) ==
    {fields[i].name : i \in {j \in 1..Len(fields) : fields[j].field.none}}

\* Meta names no document (opts.document is None)
NoDocument == <<>>

\* DocumentFormMetaclass.__new__: for a class with a Meta.document FieldError
\* when a key without form field is not declared, base_fields otherwise; for
\* a class without one the declared fields are the base_fields
DocumentFormMetaclass_new(document, fields, exclude, declared, generator) ==
    IF document = NoDocument
    THEN [raised |-> "", missing_fields |-> {}, base_fields |-> declared]
    ELSE LET out == fields_for_document(document, fields, exclude, generator)
             missing_fields == none_document_fields(out) \ SeqToSet(Keys(declared))
         IN IF missing_fields # {}
            THEN [raised |-> "FieldError", missing_fields |-> missing_fields,
                  base_fields |-> <<>>]
            ELSE [raised |-> "", missing_fields |-> {},
                  base_fields |-> base_fields(document, fields, exclude, declared,
                                              generator)]

\* BaseDocumentForm.__init__ raises ValueError: no instance is given and the
\* class has no document
BaseDocumentForm_init_raises(document, given) == ~given /\ document = NoDocument

\* the class the metaclass builds, with the default field generator
FormClass(form_cls, document, fields, exclude, declared) ==
    [form |-> form_cls, document |-> document, fields |-> fields,
     exclude |-> exclude, declared |-> declared, generator |-> {},
     base_fields |-> base_fields(document, fields, exclude, declared, {})]

\* a declared form field
Declared(name, required) ==
    [name |-> name, field |-> [none |-> FALSE, required |-> required]]

\* class ArticleForm(DocumentForm): Meta.document = Article
ArticleForm == FormClass("DocumentForm", Article, None, None, <<>>)

\* Meta.fields = ('title',)
TitleForm == FormClass("DocumentForm", Article, Some(<<"title">>), None, <<>>)

\* Meta.fields = []
NoFieldsForm == FormClass("DocumentForm", Article, Some(<<>>), None, <<>>)

\* title is declared on the form by hand and excluded in Meta
DeclaredForm ==
    FormClass("DocumentForm", Article, None, Some(<<"title">>),
              <<Declared("title", TRUE)>>)

\* class CommentForm(EmbeddedDocumentForm): Meta.document = Comment,
\* Meta.embedded_field_name = 'comments', a ListField of the parent
CommentForm == FormClass("EmbeddedDocumentForm", Comment, None, None, <<>>)

\* class TextForm(EmbeddedDocumentForm): Meta.exclude = ('note',)
TextForm == FormClass("EmbeddedDocumentForm", Comment, None, Some(<<"note">>), <<>>)

\* list.models.ItemForm: Meta.document = Item, Meta.exclude = ('user', 'created')
ItemForm == FormClass("DocumentForm", Item, None, Some(<<"user", "created">>), <<>>)

\* class PhotoForm(DocumentForm): Meta.document = Photo
PhotoForm == FormClass("DocumentForm", Photo, None, None, <<>>)

\* class TaggedForm(DocumentForm): Meta.document = Tagged
TaggedForm == FormClass("DocumentForm", Tagged, None, None, <<>>)

\* the names in self.fields
FormFieldNames(c) == SeqToSet(Keys(c.base_fields))

\* self.fields[name]
FormFieldOf(c, name) ==
    c.base_fields[CHOOSE i \in 1..Len(c.base_fields) : c.base_fields[i].name = name].field

\* the keys the error mapping can get
ErrorKeys(c) == FieldNames(c.document) \cup FormFieldNames(c) \cup {NON_FIELD_ERRORS}

----------------------------------------------------------------------------
(* BaseDocumentForm.__init__ *)

\* the pks of the documents a reference can point to
Refs == {"r1", "r2"}

\* what a request can submit for a form field: text, a file name for an
\* upload ("" for none)
RawValues(f) ==
    CASE f.cls = "FileField" -> {"", "photo.jpg"}
      [] f.cls = "ListField" /\ f.elem = "ReferenceField" -> ListsUpTo(Refs, MaxRefs)
      [] f.cls = "ListField" -> {<<>>}
      [] f.name = "note" -> {"", "n"}
      [] f.name = "tag" -> {"t", "u"}
      [] OTHER -> {"", "a", "b", "bad"}

\* the submissions over the form fields in names
RECURSIVE Submissions(_, _)
Submissions(c, names) ==
    IF names = {} THEN {<<>>}
    ELSE LET n == CHOOSE x \in names : TRUE
         IN {(n :> v) @@ d : v \in RawValues(FieldOf(c.document, n)),
                             d \in Submissions(c, names \ {n})}

\* data of a form without submitted data
NoData(c) == [n \in FormFieldNames(c) |-> CHOOSE v \in RawValues(FieldOf(c.document, n)) : TRUE]

NoErrors(c) == [k \in ErrorKeys(c) |-> <<>>]

NoCleaned(c) ==
    [has |-> [n \in FormFieldNames(c) |-> FALSE],
     value |-> [n \in FormFieldNames(c) |-> CleanedNone(FieldOf(c.document, n))]]

\* document_to_dict: the names handed to the form as initial data
document_to_dict(document, fields, exclude) ==
    {n \in FieldNames(document) :
        /\ ~(Truthy(fields) /\ ~Contains(fields, n))
        /\ ~(Truthy(exclude) /\ Contains(exclude, n))}

NoPosition == -1                     \* position is None

\* a parent document: its pk, its list of embedded documents in memory and
\* the list the database holds
Parent(pk, comments) == [pk |-> pk, comments |-> comments, stored |-> comments]

\* BaseDocumentForm.__init__(data, instance): given says an instance was passed
BaseDocumentForm(c, is_bound, data, given, instance) ==
    [live |-> TRUE,
     is_bound |-> is_bound,
     data |-> data,
     instance |-> [isClass |-> ~given,
                   data |-> IF given THEN instance ELSE Defaults(c.document)],
     position |-> NoPosition,
     initial |-> IF given THEN document_to_dict(c.document, c.fields, c.exclude) ELSE {},
     errors_set |-> FALSE,
     errors |-> NoErrors(c),
     has_cleaned_data |-> FALSE,
     cleaned_data |-> NoCleaned(c),
     validate_unique |-> FALSE,
     has_delete_before_save |-> FALSE,
     delete_before_save |-> <<>>,
     \* the lists _get_validation_exclusions returned, each with the cleaned
     \* data it was computed from
     exclusions |-> <<>>,
     \* the collection, the GridFS namespace, the parent and the next ObjectId
     \* as the request found them
     before |-> [store |-> {}, blobs |-> {}, parent |-> Parent(NoPk, <<>>), nextId |-> 1]]

NoForm(c) ==
    [BaseDocumentForm(c, FALSE, NoData(c), FALSE, Defaults(c.document))
        EXCEPT !.live = FALSE]

----------------------------------------------------------------------------
(* BaseForm._clean_fields: every form field cleans its submitted value *)

\* field.clean(value): the cleaned value, or a ValidationError
FieldClean(c, fm, name) ==
    LET f == FieldOf(c.document, name)
        formfield == FormFieldOf(c, name)
        raw == fm.data[name]
    IN CASE f.cls = "FileField" ->
              IF raw # "" THEN [ok |-> TRUE, value |-> Upload(raw)]
              ELSE IF name \in fm.initial /\ fm.instance.data[name].grid_id # NoPk
              THEN [ok |-> TRUE, value |-> Handle(fm.instance.data[name])]
              ELSE [ok |-> ~formfield.required, value |-> NoUpload]
         [] f.cls = "ListField" ->
              [ok |-> ~(formfield.required /\ raw = <<>>), value |-> raw]
         [] OTHER ->
              [ok |-> ~(formfield.required /\ raw = ""), value |-> raw]

_clean_fields(c, fm) ==
    [fm EXCEPT
        !.has_cleaned_data = TRUE,
        !.cleaned_data =
            [has |-> [n \in FormFieldNames(c) |-> FieldClean(c, fm, n).ok],
             value |-> [n \in FormFieldNames(c) |->
                           IF FieldClean(c, fm, n).ok THEN FieldClean(c, fm, n).value
                           ELSE CleanedNone(FieldOf(c.document, n))]],
        !.errors = [k \in ErrorKeys(c) |->
                       IF k \in FormFieldNames(c) /\ ~FieldClean(c, fm, k).ok
                       THEN <<"This field is required.">> ELSE <<>>]]

\* name in self.cleaned_data
InCleaned(c, fm, name) ==
    name \in FormFieldNames(c) /\ fm.cleaned_data.has[name]

\* self.cleaned_data.get(name, None)
CleanedGet(c, fm, name) ==
    IF InCleaned(c, fm, name) THEN fm.cleaned_data.value[name]
    ELSE CleanedNone(FieldOf(c.document, name))

\* BaseDocumentForm.clean
clean(fm) == [fm EXCEPT !.validate_unique = TRUE]

----------------------------------------------------------------------------
(* construct_instance *)

\* the fields the first loop passes on: an ObjectIdField, a name without
\* cleaned value, a name outside fields or inside exclude
Skipped(c, fm, f, fields, exclude) ==
    \/ f.cls = "ObjectIdField"
    \/ ~InCleaned(c, fm, f.name)
    \/ ~fields.isNone /\ ~Contains(fields, f.name)
    \/ Truthy(exclude) /\ Contains(exclude, f.name)

\* a step of construct_instance: a setattr of a value that is no file, the
\* delete of a stored blob, or the put of an upload
Event(op, name, grid_id) == [op |-> op, name |-> name, grid_id |-> grid_id]

\* _save_iterator_file(field, uploaded_file, file_data): the blob of file_data
\* is deleted, the upload is put under a free name; w carries the instance,
\* the GridFS namespace, the next ObjectId and the steps so far
_save_iterator_file(f, uploaded_file, file_data, w) ==
    LET stored == file_data.grid_id # NoPk
        deleted == IF stored THEN {b \in w.blobs : b.grid_id # file_data.grid_id}
                   ELSE w.blobs
        filename == _get_unique_filename(deleted, uploaded_file.name)
    IN [instance |-> w.instance,
        blobs |-> put(deleted, w.nextId, filename),
        nextId |-> w.nextId + 1,
        log |-> w.log \o (IF stored THEN <<Event("delete", f.name, file_data.grid_id)>>
                          ELSE <<>>)
                      \o <<Event("put", f.name, w.nextId)>>,
        file_data |-> [grid_id |-> w.nextId]]

\* setattr(instance, f.name, value)
SetField(w, name, value) ==
    [instance |-> [n \in DOMAIN w.instance |-> IF n = name THEN value ELSE w.instance[n]],
     blobs |-> w.blobs, nextId |-> w.nextId, log |-> w.log]

\* a plausible slip: every upload is appended, none replaces an element
RECURSIVE construct_instance_list_append(_, _, _, _, _)
construct_instance_list_append(f, uploads, i, list_field, w) ==
    IF i > Len(uploads) THEN SetField(w, f.name, list_field)
    ELSE IF uploads[i].kind = "none"
    THEN construct_instance_list_append(f, uploads, i + 1, list_field, w)
    ELSE LET saved == _save_iterator_file(f, uploads[i], EmptyProxy, w)
         IN construct_instance_list_append(f, uploads, i + 1,
                Append(list_field, saved.file_data), saved)

\* the branch of a ListField of FileField, from the upload at index i - 1 on
RECURSIVE construct_instance_list(_, _, _, _, _)
construct_instance_list(f, uploads, i, list_field, w) ==
    IF i > Len(uploads) THEN SetField(w, f.name, list_field)
    ELSE IF uploads[i].kind = "none"
    THEN construct_instance_list(f, uploads, i + 1, list_field, w)
    ELSE LET inside == i <= Len(list_field)
             saved == _save_iterator_file(f, uploads[i],
                          IF inside THEN list_field[i] ELSE EmptyProxy, w)
         IN construct_instance_list(f, uploads, i + 1,
                IF inside
                THEN [k \in 1..Len(list_field) |->
                         IF k = i THEN saved.file_data ELSE list_field[k]]
                ELSE Append(list_field, saved.file_data),
                saved)

\* the branch of a MapField of FileField: uploads is the list of the items of
\* the cleaned dict, map_field a set of [key, grid_id]
RECURSIVE construct_instance_map(_, _, _, _, _)
construct_instance_map(f, uploads, i, map_field, w) ==
    IF i > Len(uploads) THEN SetField(w, f.name, map_field)
    ELSE IF uploads[i].upload.kind = "none"
    THEN construct_instance_map(f, uploads, i + 1, map_field, w)
    ELSE LET key == uploads[i].key
             file_data == IF \E e \in map_field : e.key = key
                          THEN [grid_id |-> (CHOOSE e \in map_field : e.key = key).grid_id]
                          ELSE EmptyProxy
             saved == _save_iterator_file(f, uploads[i].upload, file_data, w)
         IN construct_instance_map(f, uploads, i + 1,
                {e \in map_field : e.key # key} \cup
                    {[key |-> key, grid_id |-> saved.file_data.grid_id]},
                saved)

\* a plausible slip: the stored proxy is put again, as an upload is
RECURSIVE construct_instance_files_reput(_, _, _, _, _, _)
construct_instance_files_reput(c, fm, fields, exclude, i, w) ==
    IF i > Len(c.document) THEN w
    ELSE LET f == c.document[i]
             field == w.instance[f.name]
             upload == fm.cleaned_data.value[f.name]
             deferred == ~Skipped(c, fm, f, fields, exclude) /\ IsFileBearing(f)
         IN IF ~deferred \/ upload.kind = "none"
            THEN construct_instance_files_reput(c, fm, fields, exclude, i + 1, w)
            ELSE LET deleted == {b \in w.blobs : b.grid_id # field.grid_id}
                     filename == _get_unique_filename(deleted,
                                     IF upload.kind = "upload" THEN upload.name
                                     ELSE "photo.jpg")
                 IN construct_instance_files_reput(c, fm, fields, exclude, i + 1,
                        [instance |-> [w.instance EXCEPT ![f.name] = [grid_id |-> w.nextId]],
                         blobs |-> put(deleted, w.nextId, filename),
                         nextId |-> w.nextId + 1,
                         log |-> Append(w.log, Event("put", f.name, w.nextId))])

\* the second loop, from the schema field at position i on
RECURSIVE construct_instance_files(_, _, _, _, _, _)
construct_instance_files(c, fm, fields, exclude, i, w) ==
    IF i > Len(c.document) THEN w
    ELSE LET f == c.document[i]
             field == w.instance[f.name]
             upload == fm.cleaned_data.value[f.name]
             deferred == ~Skipped(c, fm, f, fields, exclude) /\ IsFileBearing(f)
         IN IF ~deferred
            THEN construct_instance_files(c, fm, fields, exclude, i + 1, w)
            ELSE IF f.cls = "MapField"
            THEN construct_instance_files(c, fm, fields, exclude, i + 1,
                     construct_instance_map(f, upload, 1, field, w))
            ELSE IF f.cls = "ListField"
            THEN construct_instance_files(c, fm, fields, exclude, i + 1,
                     construct_instance_list(f, upload, 1, field, w))
            ELSE IF upload.kind = "none"
            THEN construct_instance_files(c, fm, fields, exclude, i + 1, w)
            ELSE IF upload.kind = "upload"
            THEN LET deleted == {b \in w.blobs : b.grid_id # field.grid_id}
                     filename == _get_unique_filename(deleted, upload.name)
                 IN construct_instance_files(c, fm, fields, exclude, i + 1,
                        [instance |-> [w.instance EXCEPT ![f.name] = [grid_id |-> w.nextId]],
                         blobs |-> put(deleted, w.nextId, filename),
                         nextId |-> w.nextId + 1,
                         log |-> w.log
                                 \o (IF field.grid_id # NoPk
                                     THEN <<Event("delete", f.name, field.grid_id)>>
                                     ELSE <<>>)
                                 \o <<Event("put", f.name, w.nextId)>>])
            ELSE \* the upload is the stored proxy: AttributeError on upload.file
                 construct_instance_files(c, fm, fields, exclude, i + 1,
                        [w EXCEPT !.instance[f.name] = [grid_id |-> upload.grid_id]])

\* the values the first loop assigns, and the instance's values elsewhere
Assigned(c, fm, fields, exclude, data, cleaned) ==
    [n \in FieldNames(c.document) |->
        LET f == FieldOf(c.document, n)
        IN IF ~Skipped(c, fm, f, fields, exclude) /\ ~IsFileBearing(f)
           THEN cleaned[n]
           ELSE data[n]]

\* the setattr steps of the first loop
Setattrs(c, fm, fields, exclude) ==
    LET set == SelectSeq(c.document,
                   LAMBDA f : ~Skipped(c, fm, f, fields, exclude) /\ ~IsFileBearing(f))
    IN [i \in 1..Len(set) |-> Event("setattr", set[i].name, NoPk)]

\* a plausible slip: the file-bearing fields are saved in a first pass and
\* the other values are assigned after it
construct_instance_filesfirst(c, fm, instance, fields, exclude, fs, id) ==
    LET data == IF instance.isClass THEN Defaults(c.document) ELSE instance.data
        w == construct_instance_files(c, fm, fields, exclude, 1,
                 [instance |-> data, blobs |-> fs, nextId |-> id, log |-> <<>>])
    IN [instance |-> Assigned(c, fm, fields, exclude, w.instance, fm.cleaned_data.value),
        blobs |-> w.blobs, nextId |-> w.nextId,
        log |-> w.log \o Setattrs(c, fm, fields, exclude)]

construct_instance(c, fm, instance, fields, exclude, fs, id) ==
    LET data == IF instance.isClass THEN Defaults(c.document) ELSE instance.data
    IN construct_instance_files(c, fm, fields, exclude, 1,
           [instance |-> Assigned(c, fm, fields, exclude, data, fm.cleaned_data.value),
            blobs |-> fs, nextId |-> id,
            log |-> Setattrs(c, fm, fields, exclude)])

----------------------------------------------------------------------------
(* BaseDocumentForm._update_errors, for a message_dict of one key *)

_update_errors(c, fm, k, messages) ==
    IF k # NON_FIELD_ERRORS
    THEN [fm EXCEPT
             !.errors = [key \in DOMAIN fm.errors |->
                            IF key = k THEN fm.errors[key] \o messages
                            ELSE fm.errors[key]],
             !.cleaned_data =
                 IF InCleaned(c, fm, k)
                 THEN [has |-> [n \in FormFieldNames(c) |->
                                   n # k /\ fm.cleaned_data.has[n]],
                       value |-> [n \in FormFieldNames(c) |->
                                     IF n = k THEN CleanedNone(FieldOf(c.document, k))
                                     ELSE fm.cleaned_data.value[n]]]
                 ELSE fm.cleaned_data]
    ELSE [fm EXCEPT
             !.errors = [key \in DOMAIN fm.errors |->
                            IF key = NON_FIELD_ERRORS THEN fm.errors[key] \o messages
                            ELSE fm.errors[key]]]

\* the error mapping has no entry
NoErrorsIn(fm) == \A k \in DOMAIN fm.errors : fm.errors[k] = <<>>

----------------------------------------------------------------------------
(* BaseDocumentForm._get_validation_exclusions *)

\* a plausible slip: "elif self._errors:", any error excludes the field
IsExcluded_anyerror(c, fm, f) ==
    IF f.name \notin FormFieldNames(c) THEN TRUE
    ELSE IF Truthy(c.fields) /\ ~Contains(c.fields, f.name) THEN TRUE
    ELSE IF Truthy(c.exclude) /\ Contains(c.exclude, f.name) THEN TRUE
    ELSE IF \E k \in DOMAIN fm.errors : fm.errors[k] # <<>> THEN TRUE
    ELSE ~f.required /\ IsEmptyCleaned(f, CleanedGet(c, fm, f.name))

\* the branches that put f.name on the list
IsExcluded(c, fm, f) ==
    IF f.name \notin FormFieldNames(c) THEN TRUE
    ELSE IF Truthy(c.fields) /\ ~Contains(c.fields, f.name) THEN TRUE
    ELSE IF Truthy(c.exclude) /\ Contains(c.exclude, f.name) THEN TRUE
    ELSE IF fm.errors[f.name] # <<>> THEN TRUE
    ELSE ~f.required /\ IsEmptyCleaned(f, CleanedGet(c, fm, f.name))

RECURSIVE _get_validation_exclusions_loop(_, _, _, _)
_get_validation_exclusions_loop(c, fm, i, exclude) ==
    IF i > Len(c.document) THEN exclude
    ELSE _get_validation_exclusions_loop(c, fm, i + 1,
             IF IsExcluded(c, fm, c.document[i])
             THEN Append(exclude, c.document[i].name) ELSE exclude)

_get_validation_exclusions(c, fm) == _get_validation_exclusions_loop(c, fm, 1, <<>>)

----------------------------------------------------------------------------
(* BaseDocumentForm.validate_unique *)

\* the unique_with peers that are a ListField of ReferenceField
IsReferenceList(f) == f.cls = "ListField" /\ f.elem = "ReferenceField"

\* a plausible slip: the clause on the size of the list is left out
ListQuery_nosize(stored, u_with_attr) ==
    \A k \in 1..Len(u_with_attr) : u_with_attr[k] \in SeqToSet(stored)

\* the Q object of a list peer: one clause for every entry of the instance's
\* list, and the size of the list
ListQuery(stored, u_with_attr) ==
    /\ \A k \in 1..Len(u_with_attr) : u_with_attr[k] \in SeqToSet(stored)
    /\ Len(stored) = Len(u_with_attr)

\* a plausible slip: the filter pk__ne is left out
Filtered_nopk(c, st, f, instance) ==
    {d \in st :
        /\ d[f.name] = instance[f.name]
        /\ \A j \in 1..Len(f.unique_with) :
               LET u_with == f.unique_with[j]
               IN IF IsReferenceList(FieldOf(c.document, u_with))
                  THEN ListQuery(d[u_with], instance[u_with])
                  ELSE d[u_with] = instance[u_with]}

\* the documents the filter of field f selects
Filtered(c, st, f, instance) ==
    {d \in st :
        /\ d[f.name] = instance[f.name]
        /\ \A j \in 1..Len(f.unique_with) :
               LET u_with == f.unique_with[j]
               IN IF IsReferenceList(FieldOf(c.document, u_with))
                  THEN ListQuery(d[u_with], instance[u_with])
                  ELSE d[u_with] = instance[u_with]
        /\ instance["id"] # NoPk => d["id"] # instance["id"]}

\* reduce() over the empty list of clauses raises TypeError
QueryRaises(c, f, instance) ==
    \E j \in 1..Len(f.unique_with) :
        /\ IsReferenceList(FieldOf(c.document, f.unique_with[j]))
        /\ instance[f.unique_with[j]] = <<>>

AlreadyExists == "Document with this field already exists."

\* a plausible slip: "if qs.count() > 1"
RECURSIVE validate_unique_loop_two(_, _, _, _, _, _)
validate_unique_loop_two(c, fm, st, exclude, i, errors) ==
    IF i > Len(c.document) THEN [form |-> fm, errors |-> errors, raised |-> ""]
    ELSE LET f == c.document[i]
         IN IF ~(f.unique /\ f.name \notin SeqToSet(exclude))
            THEN validate_unique_loop_two(c, fm, st, exclude, i + 1, errors)
            ELSE IF QueryRaises(c, f, fm.instance.data)
            THEN [form |-> fm, errors |-> errors, raised |-> "TypeError"]
            ELSE IF Cardinality(Filtered(c, st, f, fm.instance.data)) > 1
            THEN validate_unique_loop_two(c, _update_errors(c, fm, f.name, <<AlreadyExists>>),
                     st, exclude, i + 1, Append(errors, f.name))
            ELSE validate_unique_loop_two(c, fm, st, exclude, i + 1, errors)

\* the loop over the schema, from position i on; errors lists the fields
\* reported so far
RECURSIVE validate_unique_loop(_, _, _, _, _, _)
validate_unique_loop(c, fm, st, exclude, i, errors) ==
    IF i > Len(c.document) THEN [form |-> fm, errors |-> errors, raised |-> ""]
    ELSE LET f == c.document[i]
         IN IF ~(f.unique /\ f.name \notin SeqToSet(exclude))
            THEN validate_unique_loop(c, fm, st, exclude, i + 1, errors)
            ELSE IF QueryRaises(c, f, fm.instance.data)
            THEN [form |-> fm, errors |-> errors, raised |-> "TypeError"]
            ELSE IF Cardinality(Filtered(c, st, f, fm.instance.data)) > 0
            THEN validate_unique_loop(c, _update_errors(c, fm, f.name, <<AlreadyExists>>),
                     st, exclude, i + 1, Append(errors, f.name))
            ELSE validate_unique_loop(c, fm, st, exclude, i + 1, errors)

\* the form after a call of _get_validation_exclusions that returned exclude
Excluding(fm, exclude) ==
    [fm EXCEPT !.exclusions =
        Append(@, [exclude |-> exclude, cleaned_data |-> fm.cleaned_data,
                   errors |-> fm.errors])]

validate_unique_exclude(c, fm, st, exclude) ==
    validate_unique_loop(c, Excluding(fm, exclude), st, exclude, 1, <<>>)

validate_unique(c, fm, st) ==
    validate_unique_exclude(c, fm, st, _get_validation_exclusions(c, fm))

----------------------------------------------------------------------------
(* BaseDocumentForm._post_clean *)

\* the loop that cleans the instance's fields: it ends at the first
\* ValidationError, with the names collected so far
RECURSIVE _post_clean_loop(_, _, _, _, _)
_post_clean_loop(c, instance, exclude, i, to_delete) ==
    IF i > Len(c.document) THEN [to_delete |-> to_delete, failed |-> ""]
    ELSE LET f == c.document[i]
             value == instance[f.name]
         IN IF f.name \notin SeqToSet(exclude)
            THEN IF ValidateFails(f, value)
                 THEN [to_delete |-> to_delete, failed |-> f.name]
                 ELSE _post_clean_loop(c, instance, exclude, i + 1, to_delete)
            ELSE _post_clean_loop(c, instance, exclude, i + 1,
                     IF IsEmptyValue(f, value) THEN Append(to_delete, f.name)
                     ELSE to_delete)

\* a world is what a call leaves behind: the form, the GridFS namespace, the
\* next ObjectId and the exception raised
World(fm, built, raised) ==
    [form |-> fm, blobs |-> built.blobs, nextId |-> built.nextId, raised |-> raised]

\* if self._validate_unique: self.validate_unique()
_post_clean_checked(built, unique) == World(unique.form, built, unique.raised)

_post_clean_unique(c, fm, st, built) ==
    IF fm.validate_unique
    THEN _post_clean_checked(built, validate_unique(c, fm, st))
    ELSE World(fm, built, "")

\* self.instance.clean(), its ValidationError kept as a non-field error
_post_clean_hook(c, fm, st, built) ==
    _post_clean_unique(c,
        IF CleanFails(c.document, built.instance)
        THEN _update_errors(c, fm, NON_FIELD_ERRORS, <<"ValidationError">>)
        ELSE fm,
        st, built)

\* the ValidationError of the loop is kept and _delete_before_save is set
_post_clean_fields(c, fm, st, built, cleaned) ==
    _post_clean_hook(c,
        [(IF cleaned.failed # ""
          THEN _update_errors(c, fm, cleaned.failed, <<"ValidationError">>)
          ELSE fm)
            EXCEPT !.has_delete_before_save = TRUE,
                   !.delete_before_save = cleaned.to_delete],
        st, built)

\* the loop over the fields
_post_clean_exclude(c, fm, st, built, exclude) ==
    _post_clean_fields(c, Excluding(fm, exclude), st, built,
        _post_clean_loop(c, built.instance, exclude, 1, <<>>))

\* exclude = self._get_validation_exclusions()
_post_clean_instance(c, fm, st, built) ==
    _post_clean_exclude(c, fm, st, built, _get_validation_exclusions(c, fm))

\* self.instance = construct_instance(...)
_post_clean_built(c, fm, st, built) ==
    _post_clean_instance(c,
        [fm EXCEPT !.instance = [isClass |-> FALSE, data |-> built.instance]],
        st, built)

\* st is the collection the uniqueness queries run on
_post_clean(c, fm, st, fs, id) ==
    _post_clean_built(c, fm, st,
        construct_instance(c, fm, fm.instance, c.fields, c.exclude, fs, id))

----------------------------------------------------------------------------
(* BaseForm.full_clean, run by form.errors and form.is_valid() *)

full_clean(c, fm, st, fs, id) ==
    IF ~fm.is_bound
    THEN [form |-> [fm EXCEPT !.errors_set = TRUE, !.errors = NoErrors(c)],
          blobs |-> fs, nextId |-> id, raised |-> ""]
    ELSE _post_clean(c,
             clean(_clean_fields(c, [fm EXCEPT !.errors_set = TRUE, !.errors = NoErrors(c)])),
             st, fs, id)

\* form.errors: cleans the form the first time it is read
errors(c, fm, st, fs, id) ==
    IF fm.errors_set
    THEN [form |-> fm, blobs |-> fs, nextId |-> id, raised |-> ""]
    ELSE full_clean(c, fm, st, fs, id)

\* the ObjectIds a full_clean of the form takes for its uploads
UploadsOf(c, fm) ==
    Cardinality({n \in FormFieldNames(c) :
        FieldOf(c.document, n).cls = "FileField" /\ fm.data[n] # ""})

----------------------------------------------------------------------------
(* Document.save and Document.delete *)

\* value is None
IsNone(f, value) ==
    CASE f.cls = "ObjectIdField" -> value = NoPk
      [] f.cls \in {"ListField", "FileField"} -> FALSE
      [] OTHER -> value = PyNone

\* Document.validate() raises ValidationError for _data restricted to the
\* names in present: a required field is None, a value fails its field's
\* validation, or clean() fails
DocumentInvalid(document, data, present) ==
    \/ \E i \in 1..Len(document) :
           LET f == document[i]
               none == f.name \notin present \/ IsNone(f, data[f.name])
           IN IF none THEN f.required ELSE ValidateFails(f, data[f.name])
    \/ CleanFails(document, data)

\* instance.save() with _data restricted to the names in present: the
\* document is validated; one without pk is inserted under a new ObjectId,
\* another one is updated
DocumentSave(c, st, data, present, id) ==
    LET new == data["id"] = NoPk \/ "id" \notin present
        pk == IF new THEN id ELSE data["id"]
        old == IF \E d \in st : d["id"] = pk
               THEN (CHOOSE d \in st : d["id"] = pk)
               ELSE Defaults(c.document)
        doc == [n \in FieldNames(c.document) |->
                   IF n = "id" THEN pk
                   ELSE IF n \in present THEN data[n] ELSE old[n]]
    IN IF DocumentInvalid(c.document, data, present)
       THEN [store |-> st, pk |-> NoPk, new |-> FALSE, nextId |-> id,
             raised |-> "ValidationError"]
       ELSE [store |-> {d \in st : d["id"] # pk} \cup {doc},
             pk |-> pk,
             new |-> new,
             nextId |-> IF new THEN id + 1 ELSE id,
             raised |-> ""]

----------------------------------------------------------------------------
(* save_instance and BaseDocumentForm.save *)

\* what a call did: the exception it raised, the calls of instance.save()
\* and of parent_document.update() it made, and the document it saved
NoOutcome == [call |-> "", commit |-> FALSE, raised |-> "", returned |-> FALSE,
              saves |-> 0, updates |-> 0, parent_saves |-> 0, pk |-> NoPk,
              inserted |-> FALSE]

Outcome(commit, raised, saves, updates) ==
    [NoOutcome EXCEPT !.call = "save", !.commit = commit, !.raised = raised,
                      !.returned = raised = "", !.saves = saves, !.updates = updates]

\* what a save leaves behind: the form, the collection, the GridFS namespace,
\* the next ObjectId and the outcome of the call
Saved(fm, st, fs, id, did) ==
    [form |-> fm, store |-> st, blobs |-> fs, nextId |-> id, outcome |-> did]

\* a save that ends before instance.save()
Unsaved(read, st, commit, raised) ==
    Saved(read.form, st, read.blobs, read.nextId, Outcome(commit, raised, 0, 0))

\* a plausible slip: instance._data = data is left out after instance.save()
save_instance_stripped_kept(c, read, saved) ==
    Saved([read.form EXCEPT
              !.instance = [isClass |-> FALSE,
                            data |-> [n \in FieldNames(c.document) |->
                                IF n = "id" /\ saved.raised = "" THEN saved.pk
                                ELSE IF n \in SeqToSet(read.form.delete_before_save)
                                THEN Default(FieldOf(c.document, n))
                                ELSE read.form.instance.data[n]]]],
          saved.store, read.blobs, saved.nextId,
          [Outcome(TRUE, saved.raised, 1, 0) EXCEPT
              !.pk = saved.pk, !.inserted = saved.new])

\* instance._data = new_data; instance.save(); instance._data = data: the
\* instance is what it was, the pk of a new document included
save_instance_stripped(c, read, saved) ==
    Saved(read.form, saved.store, read.blobs, saved.nextId,
          [Outcome(TRUE, saved.raised, 1, 0) EXCEPT
              !.pk = saved.pk, !.inserted = saved.new])

\* instance.save()
save_instance_whole(c, read, saved) ==
    Saved([read.form EXCEPT
              !.instance.data["id"] = IF saved.raised = "" THEN saved.pk ELSE @],
          saved.store, read.blobs, saved.nextId,
          [Outcome(TRUE, saved.raised, 1, 0) EXCEPT
              !.pk = saved.pk, !.inserted = saved.new])

\* a plausible slip: the errors are looked at after the commit
save_instance_errors_late(c, st, commit, read) ==
    IF read.raised # ""
    THEN Unsaved(read, st, commit, read.raised)
    ELSE IF commit /\ ~read.form.instance.isClass /\ ~NoErrorsIn(read.form)
    THEN Saved(read.form,
               DocumentSave(c, st, read.form.instance.data, FieldNames(c.document),
                            read.nextId).store,
               read.blobs, read.nextId, Outcome(commit, "ValueError", 1, 0))
    ELSE IF ~NoErrorsIn(read.form)
    THEN Unsaved(read, st, commit, "ValueError")
    ELSE IF ~commit
    THEN Unsaved(read, st, commit, "")
    ELSE IF read.form.instance.isClass
    THEN Unsaved(read, st, commit, "TypeError")
    ELSE IF read.form.has_delete_before_save
    THEN save_instance_stripped(c, read,
             DocumentSave(c, st, read.form.instance.data,
                 FieldNames(c.document) \ SeqToSet(read.form.delete_before_save),
                 read.nextId))
    ELSE save_instance_whole(c, read,
             DocumentSave(c, st, read.form.instance.data, FieldNames(c.document),
                 read.nextId))

\* save_instance from "if form.errors:" on; read is what reading form.errors
\* left behind
save_instance_errors(c, st, commit, read) ==
    IF read.raised # ""
    THEN Unsaved(read, st, commit, read.raised)
    ELSE IF ~NoErrorsIn(read.form)
    THEN Unsaved(read, st, commit, "ValueError")
    ELSE IF ~commit
    THEN Unsaved(read, st, commit, "")
    ELSE IF read.form.instance.isClass
    THEN \* the document class has a save, but no self to call it on
         Unsaved(read, st, commit, "TypeError")
    ELSE IF read.form.has_delete_before_save
    THEN save_instance_stripped(c, read,
             DocumentSave(c, st, read.form.instance.data,
                 FieldNames(c.document) \ SeqToSet(read.form.delete_before_save),
                 read.nextId))
    ELSE save_instance_whole(c, read,
             DocumentSave(c, st, read.form.instance.data, FieldNames(c.document),
                 read.nextId))

\* instance = construct_instance(form, instance, fields, exclude)
save_instance_construct(c, fm, built) ==
    [form |-> [fm EXCEPT !.instance = [isClass |-> FALSE, data |-> built.instance]],
     blobs |-> built.blobs, nextId |-> built.nextId]

\* form.errors, read after the instance is constructed
save_instance_read(c, st, w) == errors(c, w.form, st, w.blobs, w.nextId)

save_instance(c, fm, st, fs, id, commit, construct) ==
    save_instance_errors(c, st, commit,
        save_instance_read(c, st,
            IF construct
            THEN save_instance_construct(c, fm,
                     construct_instance(c, fm, fm.instance, c.fields, None, fs, id))
            ELSE [form |-> fm, blobs |-> fs, nextId |-> id]))

\* BaseDocumentForm.save(commit)
save(c, fm, st, fs, id, commit) == save_instance(c, fm, st, fs, id, commit, FALSE)

----------------------------------------------------------------------------
(* EmbeddedDocumentForm *)

NoParent == Parent(NoPk, <<>>)

\* the pk of the parent in its own collection
ParentPk == 100

\* next((i for i, obj in enumerate(emb_list) if obj == instance), None)
PositionOf(emb_list, instance) ==
    IF \E i \in 1..Len(emb_list) : emb_list[i] = instance
    THEN (CHOOSE i \in 1..Len(emb_list) :
              /\ emb_list[i] = instance
              /\ \A j \in 1..(i - 1) : emb_list[j] # instance) - 1
    ELSE NoPosition

\* emb_list[position] raises IndexError
InitRaises(par, given, position) ==
    ~given /\ position # NoPosition /\ position >= Len(par.comments)

\* EmbeddedDocumentForm.__init__(parent_document, instance, position)
EmbeddedDocumentForm(c, par, is_bound, data, given, instance, position) ==
    LET emb_list == par.comments
        loaded == ~given /\ position # NoPosition
        instance1 == IF loaded THEN emb_list[position + 1] ELSE instance
        position1 == IF given /\ position = NoPosition
                     THEN PositionOf(emb_list, instance) ELSE position
    IN [BaseDocumentForm(c, is_bound, data, given \/ loaded, instance1)
           EXCEPT !.position = position1]

\* parent_document.update(set__comments__<position>=instance): the database
\* fills the places below position with null
NullComment == [n \in FieldNames(Comment) |-> PyNone]

SetAt(stored, position, instance) ==
    [i \in 1..(IF position + 1 > Len(stored) THEN position + 1 ELSE Len(stored)) |->
        IF i = position + 1 THEN instance
        ELSE IF i <= Len(stored) THEN stored[i] ELSE NullComment]

\* the parent in memory once the form is cleaned: a form with a position
\* works on the element of the parent's list itself (emb_list[position]), so
\* what construct_instance sets on the instance is set on that element
Touched(par, fm) ==
    IF fm.position # NoPosition /\ fm.position < Len(par.comments)
    THEN [pk |-> par.pk,
          comments |-> [i \in 1..Len(par.comments) |->
                           IF i = fm.position + 1 THEN fm.instance.data
                           ELSE par.comments[i]],
          stored |-> par.stored]
    ELSE par

\* what the save of an embedded form leaves behind
SavedEmbedded(read, st, par, commit, raised, updates) ==
    [form |-> read.form, store |-> st, parent |-> Touched(par, read.form),
     blobs |-> read.blobs, nextId |-> read.nextId,
     outcome |-> Outcome(commit, raised, 0, updates)]

\* EmbeddedDocumentForm.save from "if self.errors:" on; the parent's field is
\* a ListField
embedded_save_errors(c, par, st, commit, read) ==
    IF read.raised # "" THEN SavedEmbedded(read, st, par, commit, read.raised, 0)
    ELSE IF ~NoErrorsIn(read.form) THEN SavedEmbedded(read, st, par, commit, "ValueError", 0)
    ELSE IF ~commit THEN SavedEmbedded(read, st, par, commit, "", 0)
    ELSE IF par.pk = NoPk
    THEN \* update() of a document that is not saved yet fails
         SavedEmbedded(read, st, par, commit, "OperationError", 1)
    ELSE IF read.form.position = NoPosition
    THEN SavedEmbedded(read, st,
             [par EXCEPT !.stored = Append(@, read.form.instance.data)], commit, "", 1)
    ELSE SavedEmbedded(read, st,
             [par EXCEPT !.stored = SetAt(@, read.form.position, read.form.instance.data)],
             commit, "", 1)

\* EmbeddedDocumentForm.save(commit)
embedded_save(c, fm, par, st, fs, id, commit) ==
    embedded_save_errors(c, par, st, commit, errors(c, fm, st, fs, id))

----------------------------------------------------------------------------
(* EmbeddedDocumentFormSet *)

\* the position _construct_form hands to the form at index i, if any
FormPosition(emb_list, i) == IF Len(emb_list) < i THEN i ELSE NoPosition

\* _construct_form(i) raises IndexError: the position is past the list
ConstructRaises(par, i) == InitRaises(par, FALSE, FormPosition(par.comments, i))

\* EmbeddedDocumentFormSet._construct_form(i): the form at index i, bound to
\* its part of the submission
_construct_form(c, par, i, data) ==
    EmbeddedDocumentForm(c, par, TRUE, data, FALSE, Defaults(c.document),
                         FormPosition(par.comments, i))

\* a formset: its forms (the form at index i is forms[i + 1]), the DELETE
\* flag submitted with each, the INITIAL_FORMS of the submission, and the
\* parent as the request found it
FormSet(forms, delete, initial_form_count, par) ==
    [live |-> TRUE, forms |-> forms, DELETE |-> delete,
     initial_form_count |-> initial_form_count, before |-> par]

NoFormSet == [FormSet(<<>>, <<>>, 0, NoParent) EXCEPT !.live = FALSE]

\* form.has_changed() of a form without initial data
has_changed(c, fm) == \E n \in FormFieldNames(c) : fm.data[n] # ""

\* BaseDocumentFormSet.save(commit=False) from the form at index i - 1 on:
\* forms are the forms gone through, saved the objects kept
RECURSIVE formset_save_loop(_, _, _, _, _, _, _, _, _)
RECURSIVE formset_save_object(_, _, _, _, _, _, _, _, _, _)
formset_save_loop(c, fs, par, st, gfs, id, i, forms, saved) ==
    IF i > Len(fs.forms)
    THEN [forms |-> forms, saved |-> saved, raised |-> ""]
    ELSE IF ~has_changed(c, fs.forms[i]) /\ i > fs.initial_form_count
    THEN formset_save_loop(c, fs, par, st, gfs, id, i + 1,
                           Append(forms, fs.forms[i]), saved)
    ELSE formset_save_object(c, fs, par, st, gfs, id, i, forms, saved,
             embedded_save(c, fs.forms[i], par, st, gfs, id, FALSE))

\* obj = form.save(commit=False); an embedded document has no delete(), and
\* one flagged for deletion is left out of the list
formset_save_object(c, fs, par, st, gfs, id, i, forms, saved, w) ==
    IF w.outcome.raised # ""
    THEN [forms |-> Append(forms, w.form) \o SubSeq(fs.forms, i + 1, Len(fs.forms)),
          saved |-> saved, raised |-> w.outcome.raised]
    ELSE formset_save_loop(c, fs, par, st, gfs, id, i + 1, Append(forms, w.form),
             IF fs.DELETE[i] THEN saved ELSE Append(saved, w.form.instance.data))

\* setattr(parent_document, embedded_field, objs or []); parent_document.save()
formset_save_parent(fs, par, commit, objs) ==
    [formset |-> [fs EXCEPT !.forms = objs.forms],
     parent |-> IF objs.raised = "" /\ commit
                THEN [pk |-> IF par.pk = NoPk THEN ParentPk ELSE par.pk,
                      comments |-> objs.saved, stored |-> objs.saved]
                ELSE par,
     outcome |-> [NoOutcome EXCEPT
                     !.call = "formset.save", !.commit = commit,
                     !.raised = objs.raised, !.returned = objs.raised = "",
                     !.parent_saves = IF objs.raised = "" /\ commit THEN 1 ELSE 0]]

\* EmbeddedDocumentFormSet.save(commit)
formset_save(c, fs, par, st, gfs, id, commit) ==
    formset_save_parent(fs, par, commit,
        formset_save_loop(c, fs, par, st, gfs, id, 1, <<>>, <<>>))

----------------------------------------------------------------------------
(* BaseDocumentFormSet on a queryset of documents *)

\* the form at index i of a BaseDocumentFormSet: the formset hands its forms
\* the data and initial[i], and no instance
DocumentFormSetForm(c, data, i, initial_form_count) ==
    [BaseDocumentForm(c, TRUE, data, FALSE, Defaults(c.document)) EXCEPT
        !.initial = IF i < initial_form_count
                    THEN document_to_dict(c.document, None, None) ELSE {}]

\* obj.delete(): the documents with the pk of obj leave the collection
DocumentDelete(st, obj) == {d \in st : d["id"] # obj["id"]}

\* what BaseDocumentFormSet.save has done so far: the forms gone through, the
\* list saved, the collection, the GridFS namespace and the next ObjectId
FormSetSaved(forms, saved, st, gfs, id, raised) ==
    [forms |-> forms, saved |-> saved, store |-> st, blobs |-> gfs, nextId |-> id,
     raised |-> raised]

\* BaseDocumentFormSet.save(commit) from the form at index i - 1 on, for
\* forms of documents
RECURSIVE BaseDocumentFormSet_save(_, _, _, _, _, _, _, _, _)
RECURSIVE BaseDocumentFormSet_save_delete(_, _, _, _, _, _, _)
RECURSIVE BaseDocumentFormSet_save_commit(_, _, _, _, _, _, _, _, _)
BaseDocumentFormSet_save(c, fs, st, gfs, id, commit, i, forms, saved) ==
    IF i > Len(fs.forms)
    THEN FormSetSaved(forms, saved, st, gfs, id, "")
    ELSE IF ~has_changed(c, fs.forms[i]) /\ i > fs.initial_form_count
    THEN BaseDocumentFormSet_save(c, fs, st, gfs, id, commit, i + 1,
                                  Append(forms, fs.forms[i]), saved)
    ELSE BaseDocumentFormSet_save_delete(c, fs, commit, i, forms, saved,
             save(c, fs.forms[i], st, gfs, id, FALSE))

\* obj = self.save_object(form); if the DELETE box is checked: obj.delete()
BaseDocumentFormSet_save_delete(c, fs, commit, i, forms, saved, w) ==
    IF w.outcome.raised # ""
    THEN FormSetSaved(Append(forms, w.form) \o SubSeq(fs.forms, i + 1, Len(fs.forms)),
                      saved, w.store, w.blobs, w.nextId, w.outcome.raised)
    ELSE LET st == IF fs.DELETE[i]
                   THEN DocumentDelete(w.store, w.form.instance.data)
                   ELSE w.store
         IN BaseDocumentFormSet_save_commit(c, fs, commit, i, forms, saved, w, st,
                DocumentSave(c, st, w.form.instance.data, FieldNames(c.document),
                             w.nextId))

\* if commit: obj.save(); saved.append(obj): st is the collection before
\* obj.save(), kept what obj.save() makes of it
BaseDocumentFormSet_save_commit(c, fs, commit, i, forms, saved, w, st, kept) ==
    IF ~commit
    THEN BaseDocumentFormSet_save(c, fs, st, w.blobs, w.nextId, commit, i + 1,
             Append(forms, w.form), Append(saved, w.form.instance.data))
    ELSE IF kept.raised # ""
    THEN FormSetSaved(Append(forms, w.form) \o SubSeq(fs.forms, i + 1, Len(fs.forms)),
                      saved, kept.store, w.blobs, w.nextId, kept.raised)
    ELSE BaseDocumentFormSet_save(c, fs, kept.store, w.blobs, kept.nextId, commit,
             i + 1, Append(forms, w.form),
             Append(saved, [w.form.instance.data EXCEPT !["id"] = kept.pk]))

\* what formset.is_valid() has done so far: the forms cleaned, the GridFS
\* namespace, the next ObjectId, the fields form.validate_unique reported
FormSetCleaned(forms, gfs, id, reported, raised) ==
    [forms |-> forms, blobs |-> gfs, nextId |-> id, errors |-> reported,
     raised |-> raised]

\* formset.is_valid(): form.is_valid() for the forms from index i - 1 on; a
\* form past the queryset may be empty (empty_permitted), and its full_clean
\* ends without errors and without cleaning when nothing was submitted
RECURSIVE formset_is_valid(_, _, _, _, _, _, _)
RECURSIVE formset_is_valid_form(_, _, _, _, _, _)
formset_is_valid(c, fs, st, gfs, id, i, forms) ==
    IF i > Len(fs.forms) THEN FormSetCleaned(forms, gfs, id, <<>>, "")
    ELSE IF ~has_changed(c, fs.forms[i]) /\ i > fs.initial_form_count
    THEN formset_is_valid(c, fs, st, gfs, id, i + 1,
             Append(forms, [fs.forms[i] EXCEPT !.errors_set = TRUE]))
    ELSE formset_is_valid_form(c, fs, st, i, forms,
             errors(c, fs.forms[i], st, gfs, id))

formset_is_valid_form(c, fs, st, i, forms, w) ==
    IF w.raised # ""
    THEN FormSetCleaned(Append(forms, w.form) \o SubSeq(fs.forms, i + 1, Len(fs.forms)),
                        w.blobs, w.nextId, <<>>, w.raised)
    ELSE formset_is_valid(c, fs, st, w.blobs, w.nextId, i + 1, Append(forms, w.form))

\* BaseDocumentFormSet.validate_unique from the form at index i - 1 on:
\* errors += form.validate_unique() for every form with cleaned_data
RECURSIVE BaseDocumentFormSet_validate_unique(_, _, _, _, _, _)
RECURSIVE BaseDocumentFormSet_validate_unique_form(_, _, _, _, _, _, _)
BaseDocumentFormSet_validate_unique(c, cleaned, st, i, forms, errs) ==
    IF cleaned.raised # "" THEN cleaned
    ELSE IF i > Len(cleaned.forms)
    THEN FormSetCleaned(forms, cleaned.blobs, cleaned.nextId, errs,
                        IF errs # <<>> THEN "ValidationError" ELSE "")
    ELSE IF ~cleaned.forms[i].has_cleaned_data
    THEN BaseDocumentFormSet_validate_unique(c, cleaned, st, i + 1,
             Append(forms, cleaned.forms[i]), errs)
    ELSE BaseDocumentFormSet_validate_unique_form(c, cleaned, st, i, forms, errs,
             validate_unique(c, cleaned.forms[i], st))

BaseDocumentFormSet_validate_unique_form(c, cleaned, st, i, forms, errs, unique) ==
    IF unique.raised # ""
    THEN FormSetCleaned(
             Append(forms, unique.form) \o SubSeq(cleaned.forms, i + 1, Len(cleaned.forms)),
             cleaned.blobs, cleaned.nextId, errs, unique.raised)
    ELSE BaseDocumentFormSet_validate_unique(c, cleaned, st, i + 1,
             Append(forms, unique.form), errs \o unique.errors)

\* BaseDocumentFormSet.clean, run by formset.is_valid() after the forms
BaseDocumentFormSet_clean(c, fs, st, gfs, id) ==
    BaseDocumentFormSet_validate_unique(c,
        formset_is_valid(c, fs, st, gfs, id, 1, <<>>), st, 1, <<>>, <<>>)

----------------------------------------------------------------------------
(* The parts of the state a specification leaves alone *)

NoCall == [document |-> <<>>, fields |-> None, exclude |-> None,
           generator |-> {}, done |-> FALSE, out |-> <<>>]

IdleFields == fd = NoCall

IdleName == upl = <<>>

IdleForms ==
    /\ formClass = ArticleForm
    /\ store = {}
    /\ parent = NoParent
    /\ form = NoForm(ArticleForm)
    /\ outcome = NoOutcome
    /\ inserted = {}
    /\ formset = NoFormSet

----------------------------------------------------------------------------
(* Spec: the requests served through a DocumentForm *)

FormClasses == {ArticleForm, TitleForm, DeclaredForm, CommentForm}

IsEmbedded(c) == c.form = "EmbeddedDocumentForm"

\* the parents an embedded form starts from: one that is not saved yet, and a
\* saved one with a comment
Parents(c) ==
    IF IsEmbedded(c)
    THEN {Parent(NoPk, <<>>),
          Parent(ParentPk, <<[text |-> "a", note |-> "n"]>>)}
    ELSE {NoParent}


InitForms(classes) ==
    /\ formClass \in classes
    /\ store = {}
    /\ parent \in Parents(formClass)
    /\ form = NoForm(formClass)
    /\ outcome = NoOutcome
    /\ inserted = {}
    /\ formset = NoFormSet
    /\ blobs = {}
    /\ nextId = 1
    /\ IdleFields
    /\ IdleName

Init == InitForms(FormClasses)

\* the state a request finds
Before == [store |-> store, blobs |-> blobs, parent |-> parent, nextId |-> nextId]

\* form = Form(data, instance=instance): a request builds its form
NewForm(is_bound, data, given, instance) ==
    /\ ~IsEmbedded(formClass)
    /\ ~form.live
    /\ form' = [BaseDocumentForm(formClass, is_bound, data, given, instance)
                    EXCEPT !.before = Before]
    /\ nextId + UploadsOf(formClass, form') <= MaxId + 1
    /\ outcome' = NoOutcome
    /\ UNCHANGED <<formClass, store, parent, fd, blobs, nextId, upl, inserted, formset>>

\* the state a call on the form leaves behind
Left(w, call) ==
    /\ form' = w.form
    /\ blobs' = w.blobs
    /\ nextId' = w.nextId
    /\ outcome' = [NoOutcome EXCEPT !.call = call, !.raised = w.raised,
                                    !.returned = w.raised = ""]

\* form.is_valid()
IsValid ==
    /\ form.live
    /\ ~form.errors_set
    /\ Left(full_clean(formClass, form, store, blobs, nextId), "is_valid")
    /\ parent' = IF IsEmbedded(formClass) THEN Touched(parent, form') ELSE parent
    /\ UNCHANGED <<formClass, store, fd, upl, inserted, formset>>

\* form = Form(parent_document, instance=instance, position=position, data)
NewEmbeddedForm(is_bound, data, given, instance, position) ==
    /\ IsEmbedded(formClass)
    /\ ~form.live
    /\ IF InitRaises(parent, given, position)
       THEN /\ outcome' = [NoOutcome EXCEPT !.call = "__init__", !.raised = "IndexError"]
            /\ form' = form
       ELSE /\ outcome' = NoOutcome
            /\ form' = [EmbeddedDocumentForm(formClass, parent, is_bound, data,
                                             given, instance, position)
                            EXCEPT !.before = Before]
    /\ UNCHANGED <<formClass, store, parent, fd, blobs, nextId, upl, inserted, formset>>

\* the state a save leaves behind; the database has ObjectIds and room for
\* what it is given
LeftSaved(w, par) ==
    /\ w.nextId <= MaxId + 1
    /\ Len(par.stored) <= MaxComments
    /\ form' = w.form
    /\ store' = w.store
    /\ parent' = par
    /\ blobs' = w.blobs
    /\ nextId' = w.nextId
    /\ outcome' = w.outcome
    /\ inserted' = IF w.outcome.saves = 0 \/ w.outcome.raised # "" THEN inserted
                   ELSE {e \in inserted : e.pk # w.outcome.pk} \cup
                        (IF w.outcome.inserted
                         THEN {[pk |-> w.outcome.pk, data |-> w.form.instance.data]}
                         ELSE {})

SaveDocument(commit) ==
    LeftSaved(save(formClass, form, store, blobs, nextId, commit), parent)

SaveEmbedded(w) == LeftSaved(w, w.parent)

\* form.save(commit)
Save(commit) ==
    /\ form.live
    /\ outcome.call # "save"
    /\ outcome.raised = ""
    /\ IF IsEmbedded(formClass)
       THEN SaveEmbedded(embedded_save(formClass, form, parent, store, blobs, nextId, commit))
       ELSE SaveDocument(commit)
    /\ UNCHANGED <<formClass, fd, upl, formset>>

\* the request ends and its form is dropped
Respond ==
    /\ form.live
    /\ form' = NoForm(formClass)
    /\ outcome' = NoOutcome
    /\ UNCHANGED <<formClass, store, parent, fd, blobs, nextId, upl, inserted, formset>>

\* list.views.delete: i.delete()
Delete(d) ==
    /\ ~form.live
    /\ d \in store
    /\ store' = store \ {d}
    /\ UNCHANGED <<formClass, parent, form, outcome, fd, blobs, nextId, upl, inserted, formset>>

\* the requests on a DocumentForm
NextDocument ==
    \/ \E data \in Submissions(formClass, FormFieldNames(formClass)) :
           \/ NewForm(TRUE, data, FALSE, Defaults(formClass.document))
           \/ \E d \in store : NewForm(TRUE, data, TRUE, d)
    \/ NewForm(FALSE, NoData(formClass), FALSE, Defaults(formClass.document))
    \/ \E d \in store : NewForm(FALSE, NoData(formClass), TRUE, d)
    \/ IsValid
    \/ \E commit \in BOOLEAN : Save(commit)
    \/ Respond
    \/ \E d \in store : Delete(d)

\* the ways a request builds an EmbeddedDocumentForm
NextEmbedded ==
    \E is_bound \in BOOLEAN :
    \E data \in IF is_bound THEN Submissions(formClass, FormFieldNames(formClass))
                 ELSE {NoData(formClass)} :
        \/ NewEmbeddedForm(is_bound, data, FALSE, Defaults(formClass.document), NoPosition)
        \/ \E position \in 0..Len(parent.comments) :
               NewEmbeddedForm(is_bound, data, FALSE, Defaults(formClass.document), position)
        \/ \E i \in 1..Len(parent.comments) :
               NewEmbeddedForm(is_bound, data, TRUE, parent.comments[i], NoPosition)

Next == NextDocument \/ NextEmbedded

Spec == Init /\ [][Next]_vars

\* SpecFile: the same requests, through the form of a document with a file
\* the same requests on the forms of one document with different Meta options
SpecOptions ==
    InitForms({ArticleForm, TitleForm, DeclaredForm, NoFieldsForm}) /\ [][NextDocument]_vars

InitFile == InitForms({PhotoForm})

SpecFile == InitFile /\ [][NextDocument]_vars

\* SpecEdits: the edits of one stored photo, whose picture is in GridFS
InitEdits ==
    /\ formClass = PhotoForm
    /\ store = {[id |-> 100, title |-> "a", picture |-> [grid_id |-> 101]]}
    /\ blobs = {[grid_id |-> 101, filename |-> "photo.jpg"]}
    /\ parent = NoParent
    /\ form = NoForm(formClass)
    /\ outcome = NoOutcome
    /\ inserted = {}
    /\ formset = NoFormSet
    /\ nextId = 1
    /\ IdleFields
    /\ IdleName

NextEdits ==
    \/ \E data \in Submissions(formClass, FormFieldNames(formClass)) :
       \E d \in store : NewForm(TRUE, data, TRUE, d)
    \/ IsValid
    \/ \E commit \in BOOLEAN : Save(commit)
    \/ Respond

SpecEdits == InitEdits /\ [][NextEdits]_vars

\* SpecUnique: the same requests, through the form of a document with a
\* unique_with list of references
InitUnique == InitForms({TaggedForm})

SpecUnique == InitUnique /\ [][NextDocument]_vars

----------------------------------------------------------------------------
(* SpecConstruct: construct_instance on the cleaned data of a form *)

\* the forms of Album: no options, Meta.fields, Meta.exclude
AlbumForms ==
    {FormClass("DocumentForm", Album, None, None, <<>>),
     FormClass("DocumentForm", Album, Some(<<"pictures", "title">>), None, <<>>),
     FormClass("DocumentForm", Album, None, Some(<<"caption", "cover">>), <<>>)}

\* the stored albums a form is given, and the blobs of their files
StoredAlbums ==
    {[id |-> 100, title |-> "a", caption |-> "c", cover |-> cover,
      pictures |-> pictures, files |-> files] :
        cover \in {EmptyProxy, [grid_id |-> 101]},
        pictures \in {<<>>, <<[grid_id |-> 102]>>, <<[grid_id |-> 102], [grid_id |-> 103]>>},
        files \in {{}, {[key |-> "k1", grid_id |-> 104]}}}

\* the handles an album holds
HandlesOf(album) ==
    {album.cover.grid_id} \cup {album.pictures[i].grid_id : i \in 1..Len(album.pictures)}
        \cup {e.grid_id : e \in album.files}

BlobsOf(album) ==
    {[grid_id |-> g, filename |-> IF g = 101 THEN "photo.jpg" ELSE "photo_1.jpg"] :
        g \in HandlesOf(album) \ {NoPk}}

\* what the form fields clean to
CleanedValues(f, album) ==
    CASE f.cls = "FileField" ->
             {NoUpload, Upload("photo.jpg")} \cup
                 (IF album[f.name].grid_id # NoPk THEN {Handle(album[f.name])} ELSE {})
      [] f.cls = "ListField" -> ListsUpTo({NoUpload, Upload("photo.jpg")}, MaxFiles)
      [] f.cls = "MapField" ->
             {<<>>} \cup
             {<<[key |-> k, upload |-> u]>> : k \in {"k1", "k2"},
                                             u \in {NoUpload, Upload("photo.jpg")}} \cup
             {<<[key |-> "k1", upload |-> u], [key |-> "k2", upload |-> v]>> :
                  u \in {NoUpload, Upload("photo.jpg")},
                  v \in {NoUpload, Upload("photo.jpg")}}
      [] OTHER -> {"b"}

\* the cleaned values over the form fields in names
RECURSIVE CleanedOver(_, _, _)
CleanedOver(c, album, names) ==
    IF names = {} THEN {<<>>}
    ELSE LET n == CHOOSE x \in names : TRUE
         IN {(n :> v) @@ d : v \in CleanedValues(FieldOf(c.document, n), album),
                             d \in CleanedOver(c, album, names \ {n})}

\* the cleaned_data a validation leaves: title may have failed
Cleanings(c, album) ==
    {[has |-> [n \in FormFieldNames(c) |-> n # "title" \/ title],
      value |-> value] :
        title \in BOOLEAN,
        value \in CleanedOver(c, album, FormFieldNames(c))}

InitConstruct ==
    /\ formClass \in AlbumForms
    /\ \E given \in BOOLEAN :
       \E album \in IF given THEN StoredAlbums ELSE {Defaults(Album)} :
       \E cleaned_data \in Cleanings(formClass, album) :
           /\ store = IF given THEN {album} ELSE {}
           /\ blobs = BlobsOf(album)
           /\ form = [BaseDocumentForm(formClass, TRUE, NoData(formClass), given, album)
                          EXCEPT !.has_cleaned_data = TRUE,
                                 !.cleaned_data = cleaned_data,
                                 !.before = [store |-> store, blobs |-> blobs,
                                             parent |-> NoParent, nextId |-> 1]]
    /\ parent = NoParent
    /\ outcome = NoOutcome
    /\ inserted = {}
    /\ formset = NoFormSet
    /\ nextId = 1
    /\ IdleFields
    /\ IdleName

\* construct_instance(form, form.instance, opts.fields, opts.exclude)
Construct ==
    /\ outcome.call = ""
    /\ LET w == construct_instance(formClass, form, form.instance, formClass.fields,
                                   formClass.exclude, blobs, nextId)
       IN /\ form' = [form EXCEPT !.instance = [isClass |-> FALSE, data |-> w.instance]]
          /\ blobs' = w.blobs
          /\ nextId' = w.nextId
          /\ upl' = w.log
    /\ outcome' = [NoOutcome EXCEPT !.call = "construct_instance"]
    /\ UNCHANGED <<formClass, store, parent, fd, inserted, formset>>

SpecConstruct == InitConstruct /\ [][Construct]_vars

----------------------------------------------------------------------------
(* SpecFormSet: a request served through an EmbeddedDocumentFormSet *)

\* the embedded document at place i of the parent the request starts from
Element(i) == [text |-> "t" \o ToString(i), note |-> "n"]

Elements(n) == [i \in 1..n |-> Element(i - 1)]

\* what the form shows of an embedded document, submitted as it is
Resubmit(c, e) == [n \in FormFieldNames(c) |-> IF e[n] = PyNone THEN "" ELSE e[n]]

\* the submitted data of the form at index i - 1: for a form of the parent's
\* list the element as shown, with a new text or without text; for a form
\* past the list nothing or a new comment
DataAt(c, par, i) ==
    IF i <= Len(par.comments)
    THEN {Resubmit(c, par.comments[i]),
          [Resubmit(c, par.comments[i]) EXCEPT !["text"] = "new"],
          [Resubmit(c, par.comments[i]) EXCEPT !["text"] = ""]}
    ELSE {[n \in FormFieldNames(c) |-> ""],
          [n \in FormFieldNames(c) |-> IF n = "text" THEN "new" ELSE ""]}

\* the submissions of total forms: the data and the DELETE flag of each
RECURSIVE FormSetSubmissions(_, _, _)
FormSetSubmissions(c, par, total) ==
    IF total = 0 THEN {<<>>}
    ELSE {Append(s, [data |-> d, DELETE |-> x]) :
              s \in FormSetSubmissions(c, par, total - 1),
              d \in DataAt(c, par, total), x \in BOOLEAN}

InitFormSet ==
    /\ formClass \in {CommentForm, TextForm}
    /\ store = {}
    /\ parent \in {Parent(ParentPk, Elements(n)) : n \in 0..MaxElements}
    /\ form = NoForm(formClass)
    /\ outcome = NoOutcome
    /\ inserted = {}
    /\ formset = NoFormSet
    /\ blobs = {}
    /\ nextId = 1
    /\ IdleFields
    /\ IdleName

\* formset = FormSet(data, queryset=emb_list, parent_document=parent): the
\* forms are built one after the other
NewFormSet(submitted) ==
    /\ ~formset.live
    /\ outcome.call = ""
    /\ IF \E i \in 0..(Len(submitted) - 1) : ConstructRaises(parent, i)
       THEN /\ outcome' = [NoOutcome EXCEPT !.call = "_construct_form",
                                            !.raised = "IndexError"]
            /\ formset' = formset
       ELSE /\ outcome' = NoOutcome
            /\ formset' = FormSet(
                   [i \in 1..Len(submitted) |->
                       _construct_form(formClass, parent, i - 1, submitted[i].data)],
                   [i \in 1..Len(submitted) |-> submitted[i].DELETE],
                   Len(parent.comments), parent)
    /\ UNCHANGED <<formClass, store, parent, form, fd, blobs, nextId, upl, inserted>>

\* the state formset.save leaves behind
LeftFormSet(w) ==
    /\ formset' = w.formset
    /\ parent' = w.parent
    /\ outcome' = w.outcome

\* formset.save(commit)
SaveFormSet(commit) ==
    /\ formset.live
    /\ outcome.call = ""
    /\ LeftFormSet(formset_save(formClass, formset, parent, store, blobs, nextId, commit))
    /\ UNCHANGED <<formClass, store, form, fd, blobs, nextId, upl, inserted>>

\* the request ends
RespondFormSet ==
    /\ outcome.call # ""
    /\ outcome.call # "done"
    /\ formset' = NoFormSet
    /\ outcome' = [NoOutcome EXCEPT !.call = "done"]
    /\ UNCHANGED <<formClass, store, parent, form, fd, blobs, nextId, upl, inserted>>

NextFormSet ==
    \/ \E total \in Len(parent.comments)..(Len(parent.comments) + MaxExtra) :
       \E submitted \in FormSetSubmissions(formClass, parent, total) :
           NewFormSet(submitted)
    \/ \E commit \in BOOLEAN : SaveFormSet(commit)
    \/ RespondFormSet

SpecFormSet == InitFormSet /\ [][NextFormSet]_vars

----------------------------------------------------------------------------
(* SpecDocumentFormSet: a request served through a BaseDocumentFormSet of *)
(* ItemForm over the items, or of ArticleForm over the articles, of the   *)
(* collection                                                             *)

\* the item at place i of the collection the request starts from
StoredItem(i) ==
    [n \in FieldNames(Item) |->
        IF n = "id" THEN 100 + i
        ELSE IF n = "text" THEN "t" \o ToString(i)
        ELSE Default(FieldOf(Item, n))]

\* the article at place i of the collection the request starts from
StoredArticle(i) ==
    [n \in FieldNames(Article) |->
        IF n = "id" THEN 100 + i
        ELSE IF n = "title" THEN "t" \o ToString(i)
        ELSE Default(FieldOf(Article, n))]

\* Item.objects: the documents of the collection, in the order of their ids
RECURSIVE Queryset(_)
Queryset(st) ==
    IF st = {} THEN <<>>
    ELSE LET d == CHOOSE x \in st : \A y \in st : x["id"] <= y["id"]
         IN <<d>> \o Queryset(st \ {d})

\* the submitted data of the form at index i - 1: for a form of the queryset
\* the document as shown or with a new text (title), for a form past it
\* nothing or a new document; no form carries an upload
ItemDataAt(c, queryset, i) ==
    IF i <= Len(queryset)
    THEN {[n \in FormFieldNames(c) |-> IF n \in {"text", "title"} THEN v ELSE ""] :
              v \in {queryset[i][n] : n \in {"text", "title"} \cap FormFieldNames(c)}
                    \cup {"new"}}
    ELSE {[n \in FormFieldNames(c) |-> IF n \in {"text", "title"} THEN v ELSE ""] :
              v \in {"", "new"}}

\* the submissions of total forms: the data and the DELETE flag of each
RECURSIVE ItemSubmissions(_, _, _)
ItemSubmissions(c, queryset, total) ==
    IF total = 0 THEN {<<>>}
    ELSE {Append(s, [data |-> d, DELETE |-> x]) :
              s \in ItemSubmissions(c, queryset, total - 1),
              d \in ItemDataAt(c, queryset, total), x \in BOOLEAN}

InitDocumentFormSet ==
    /\ formClass \in {ItemForm, ArticleForm}
    /\ store \in {{IF formClass = ItemForm THEN StoredItem(i) ELSE StoredArticle(i) :
                       i \in 1..n} : n \in 0..MaxDocuments}
    /\ parent = NoParent
    /\ form = NoForm(formClass)
    /\ outcome = NoOutcome
    /\ inserted = {}
    /\ formset = NoFormSet
    /\ blobs = {}
    /\ nextId = 1
    /\ IdleFields
    /\ IdleName

\* formset = FormSet(data, queryset=Item.objects): saved is the list that
\* formset.save returns
NewDocumentFormSet(queryset, submitted) ==
    /\ ~formset.live
    /\ outcome.call = ""
    /\ outcome' = NoOutcome
    /\ formset' = [live |-> TRUE,
                   forms |-> [i \in 1..Len(submitted) |->
                                 DocumentFormSetForm(formClass, submitted[i].data,
                                                     i - 1, Len(queryset))],
                   DELETE |-> [i \in 1..Len(submitted) |-> submitted[i].DELETE],
                   initial_form_count |-> Len(queryset),
                   before |-> [store |-> store, queryset |-> queryset],
                   saved |-> <<>>]
    /\ UNCHANGED <<formClass, store, parent, form, fd, blobs, nextId, upl, inserted>>

\* the state formset.is_valid() leaves behind: valid when no form has an
\* error and formset.clean raised nothing
LeftCleaned(w) ==
    /\ formset' = [formset EXCEPT !.forms = w.forms]
    /\ blobs' = w.blobs
    /\ nextId' = w.nextId
    /\ outcome' = [NoOutcome EXCEPT
                      !.call = "formset.is_valid",
                      !.raised = IF w.raised = "ValidationError" THEN "" ELSE w.raised,
                      !.returned = /\ w.raised = ""
                                   /\ \A i \in 1..Len(w.forms) : NoErrorsIn(w.forms[i])]

\* the state formset.save leaves behind; the database has ObjectIds for what
\* it is given
LeftDocumentFormSet(w, commit) ==
    /\ w.nextId <= MaxId + 1
    /\ formset' = [live |-> TRUE, forms |-> w.forms, DELETE |-> formset.DELETE,
                   initial_form_count |-> formset.initial_form_count,
                   before |-> formset.before, saved |-> w.saved]
    /\ store' = w.store
    /\ blobs' = w.blobs
    /\ nextId' = w.nextId
    /\ outcome' = [NoOutcome EXCEPT
                      !.call = "formset.save", !.commit = commit,
                      !.raised = w.raised, !.returned = w.raised = ""]

\* formset.is_valid()
IsValidFormSet ==
    /\ formset.live
    /\ outcome.call = ""
    /\ LeftCleaned(BaseDocumentFormSet_clean(formClass, formset, store, blobs, nextId))
    /\ UNCHANGED <<formClass, store, parent, form, fd, upl, inserted>>

\* formset.save(commit)
SaveDocumentFormSet(commit) ==
    /\ formset.live
    /\ outcome.call \in {"", "formset.is_valid"}
    /\ LeftDocumentFormSet(
           BaseDocumentFormSet_save(formClass, formset, store, blobs, nextId, commit,
                                    1, <<>>, <<>>), commit)
    /\ UNCHANGED <<formClass, parent, form, fd, upl, inserted>>

NextDocumentFormSet ==
    \/ \E total \in Cardinality(store)..(Cardinality(store) + MaxExtra) :
       \E submitted \in ItemSubmissions(formClass, Queryset(store), total) :
           NewDocumentFormSet(Queryset(store), submitted)
    \/ IsValidFormSet
    \/ \E commit \in BOOLEAN : SaveDocumentFormSet(commit)
    \/ RespondFormSet

SpecDocumentFormSet == InitDocumentFormSet /\ [][NextDocumentFormSet]_vars

----------------------------------------------------------------------------
(* SpecRace: two requests served at the same time, each with its own      *)
(* ArticleForm for a new article. form[r] and outcome[r] are the form and  *)
(* the last call of request r; passed says the form had no errors when it  *)
(* was cleaned. A step is one call on one request's form.                  *)

Requests == {1, 2}

Request(fm, passed) == [form |-> fm, passed |-> passed]

InitRace ==
    /\ formClass = ArticleForm
    /\ store = {}
    /\ parent = NoParent
    /\ form = [r \in Requests |-> Request(NoForm(formClass), FALSE)]
    /\ outcome = [r \in Requests |-> NoOutcome]
    /\ inserted = {}
    /\ formset = NoFormSet
    /\ blobs = {}
    /\ nextId = 1
    /\ IdleFields
    /\ IdleName

\* request r builds its form: form = ArticleForm(data)
Submit(r, data) ==
    /\ ~form[r].form.live
    /\ form' = [q \in Requests |->
                   IF q = r
                   THEN Request([BaseDocumentForm(formClass, TRUE, data, FALSE,
                                                  Defaults(formClass.document))
                                    EXCEPT !.before = Before], FALSE)
                   ELSE form[q]]
    /\ UNCHANGED <<formClass, store, parent, outcome, fd, blobs, nextId, upl,
                   inserted, formset>>

\* the state a call on the form of request r leaves behind; a form is
\* cleaned by the first call that reads its errors
LeftRace(r, fm, did) ==
    /\ form' = [q \in Requests |->
                   IF q = r
                   THEN Request(fm, IF form[r].form.errors_set THEN form[r].passed
                                    ELSE NoErrorsIn(fm))
                   ELSE form[q]]
    /\ outcome' = [q \in Requests |-> IF q = r THEN did ELSE outcome[q]]

\* request r: form.is_valid(), its uniqueness queries run on the collection
\* as it is now
ValidateRace(r, w) ==
    /\ LeftRace(r, w.form, [NoOutcome EXCEPT !.call = "is_valid",
                                             !.raised = w.raised,
                                             !.returned = w.raised = ""])
    /\ blobs' = w.blobs
    /\ nextId' = w.nextId
    /\ UNCHANGED <<formClass, store, parent, fd, upl, inserted, formset>>

Validate(r) ==
    /\ form[r].form.live
    /\ ~form[r].form.errors_set
    /\ ValidateRace(r, full_clean(formClass, form[r].form, store, blobs, nextId))

\* a plausible slip: the form is cleaned again when it is saved
save_race_recheck(c, fm, st, fs, id) ==
    save(c, [fm EXCEPT !.errors_set = FALSE], st, fs, id, TRUE)

\* form.save() of a request: nothing is taken or held between the
\* uniqueness queries of the form's validation and instance.save()
save_race(c, fm, st, fs, id) == save(c, fm, st, fs, id, TRUE)

\* two documents of the collection have the same value of a unique field
Duplicated(c, st) ==
    \E d \in st, e \in st :
        /\ d["id"] # e["id"]
        /\ \E i \in 1..Len(c.document) :
               /\ c.document[i].unique
               /\ d[c.document[i].name] = e[c.document[i].name]

\* instance.save() reaches the database: a collection with a unique index
\* (enforced) refuses a document whose unique value is stored already and
\* the save raises NotUniqueError, a collection without one takes it
SaveRace(r, w, enforced) ==
    /\ w.nextId <= MaxId + 1
    /\ blobs' = w.blobs
    /\ IF enforced /\ w.outcome.raised = "" /\ Duplicated(formClass, w.store)
       THEN /\ LeftRace(r, form[r].form,
                        [w.outcome EXCEPT !.raised = "NotUniqueError",
                                          !.returned = FALSE, !.pk = NoPk,
                                          !.inserted = FALSE])
            /\ UNCHANGED <<store, nextId>>
       ELSE /\ LeftRace(r, w.form, w.outcome)
            /\ store' = w.store
            /\ nextId' = w.nextId
    /\ UNCHANGED <<formClass, parent, fd, upl, inserted, formset>>

SaveRequest(r) ==
    /\ form[r].form.live
    /\ outcome[r].call # "save"
    /\ outcome[r].raised = ""
    /\ \E enforced \in BOOLEAN :
           SaveRace(r, save_race(formClass, form[r].form, store, blobs, nextId),
                    enforced)

NextRace ==
    \/ \E r \in Requests :
       \E data \in Submissions(formClass, FormFieldNames(formClass)) :
           Submit(r, data)
    \/ \E r \in Requests : Validate(r)
    \/ \E r \in Requests : SaveRequest(r)

SpecRace == InitRace /\ [][NextRace]_vars

----------------------------------------------------------------------------
(* SpecFields: fields_for_document as a function of its arguments *)

DocumentTypes == {Item, Article, Photo}


\* the names a Meta may list: the schema's, and one the schema does not have
ListableNames(document) == FieldNames(document) \cup {"nosuch"}

OptionalLists(document) ==
    {None} \cup {Some(s) : s \in ListsUpTo(ListableNames(document), MaxListLen)}


InitFields ==
    /\ \E document \in DocumentTypes :
       \E fields \in OptionalLists(document), exclude \in OptionalLists(document) :
       \E generator \in {{}, {"picture"}} :
           fd = [document |-> document, fields |-> fields, exclude |-> exclude,
                 generator |-> generator, done |-> FALSE, out |-> <<>>]
    /\ blobs = {}
    /\ nextId = 1
    /\ IdleName
    /\ IdleForms

Describe ==
    /\ fd # NoCall
    /\ ~fd.done
    /\ fd' = [fd EXCEPT !.done = TRUE,
                 !.out = fields_for_document(fd.document, fd.fields, fd.exclude, fd.generator)]
    /\ UNCHANGED <<formClass, store, parent, form, outcome, blobs, nextId, upl, inserted, formset>>

NextFields == Describe

SpecFields == InitFields /\ [][NextFields]_vars

----------------------------------------------------------------------------
(* SpecClass: the construction of a form class from its class statement *)

\* the class statements: Meta.document, Meta.fields, Meta.exclude, the field
\* generator and the fields declared by hand
InitClass ==
    /\ \E document \in DocumentTypes :
       \E fields \in OptionalLists(document) :
       \E exclude \in {None} \cup {Some(<<n>>) : n \in FieldNames(document)} :
       \E generator \in {{}, {"picture"}} :
       \E declared \in {<<>>, <<Declared("nosuch", FALSE)>>} :
           fd = [document |-> document, fields |-> fields, exclude |-> exclude,
                 generator |-> generator, declared |-> declared, done |-> FALSE,
                 raised |-> "", missing_fields |-> {}, base_fields |-> <<>>]
    /\ blobs = {}
    /\ nextId = 1
    /\ IdleName
    /\ IdleForms

\* the class statement is executed
NewClass ==
    /\ ~fd.done
    /\ LET new_class == DocumentFormMetaclass_new(fd.document, fd.fields, fd.exclude,
                                                  fd.declared, fd.generator)
       IN fd' = [fd EXCEPT !.done = TRUE,
                           !.raised = new_class.raised,
                           !.missing_fields = new_class.missing_fields,
                           !.base_fields = new_class.base_fields]
    /\ UNCHANGED <<formClass, store, parent, form, outcome, blobs, nextId, upl, inserted, formset>>

SpecClass == InitClass /\ [][NewClass]_vars

----------------------------------------------------------------------------
(* SpecInstantiate: a class statement with or without Meta.document is     *)
(* executed, and a request makes a form of the class                       *)

InitInstantiate ==
    /\ \E document \in {NoDocument, Article} :
       \E fields \in OptionalLists(Article), exclude \in OptionalLists(Article) :
       \E declared \in {<<>>, <<Declared("nosuch", FALSE)>>} :
           fd = [document |-> document, fields |-> fields, exclude |-> exclude,
                 generator |-> {}, declared |-> declared, done |-> FALSE,
                 raised |-> "", missing_fields |-> {}, base_fields |-> <<>>,
                 instantiated |-> FALSE, given |-> FALSE, init_raised |-> ""]
    /\ blobs = {}
    /\ nextId = 1
    /\ IdleName
    /\ IdleForms

\* form = Form(data) or form = Form(data, instance=instance), for a class
\* whose class statement went through
Instantiate(given) ==
    /\ fd.done
    /\ fd.raised = ""
    /\ ~fd.instantiated
    /\ fd' = [fd EXCEPT !.instantiated = TRUE,
                        !.given = given,
                        !.init_raised =
                            IF BaseDocumentForm_init_raises(fd.document, given)
                            THEN "ValueError" ELSE ""]
    /\ UNCHANGED <<formClass, store, parent, form, outcome, blobs, nextId, upl, inserted, formset>>

NextInstantiate ==
    \/ NewClass
    \/ \E given \in BOOLEAN : Instantiate(given)

SpecInstantiate == InitInstantiate /\ [][NextInstantiate]_vars

----------------------------------------------------------------------------
(* SpecName: uploads into one GridFS namespace *)

InitialFiles == {"photo.jpg", "photo_1.jpg", "photo_2.jpg", "photo"}

InitialId(filename) ==
    CASE filename = "photo.jpg" -> 1
      [] filename = "photo_1.jpg" -> 2
      [] filename = "photo_2.jpg" -> 3
      [] filename = "photo" -> 4

InitName ==
    /\ \E S \in SUBSET InitialFiles :
           blobs = {[grid_id |-> InitialId(n), filename |-> n] : n \in S}
    /\ nextId = 5
    /\ upl = <<>>
    /\ IdleFields
    /\ IdleForms

\* filename = _get_unique_filename(upload.name); put(upload, filename=filename)
PutFile(name) ==
    /\ Len(upl) < MaxUploads
    /\ LET filename == _get_unique_filename(blobs, name)
       IN /\ blobs' = put(blobs, nextId, filename)
          /\ upl' = Append(upl, [name |-> name, filename |-> filename,
                                 before |-> {b.filename : b \in blobs}])
    /\ nextId' = nextId + 1
    /\ UNCHANGED <<formClass, store, parent, form, outcome, fd, inserted, formset>>

\* GridFSProxy.delete()
DeleteFile(b) ==
    /\ b \in blobs
    /\ blobs' = blobs \ {b}
    /\ UNCHANGED <<formClass, store, parent, form, outcome, fd, nextId, upl, inserted, formset>>

NextName ==
    \/ \E name \in UploadNames : PutFile(name)
    \/ \E b \in blobs : DeleteFile(b)

SpecName == InitName /\ [][NextName]_vars

----------------------------------------------------------------------------
(* Claims on fields_for_document (checked under SpecFields) *)

\* the place of a name in the schema's declaration order
DeclaredAt(document, name) ==
    CHOOSE i \in 1..Len(document) : document[i].name = name

\* lines 251-254: the fields / exclude filter rules the name out
FilteredOut(fields, exclude, name) ==
    \/ Truthy(fields) /\ name \notin SeqToSet(fields.names)
    \/ Truthy(exclude) /\ name \in SeqToSet(exclude.names)

Reordered(opt) ==
    IF opt.isNone THEN {None} ELSE {Some(s) : s \in Orderings(opt.names)}

C12_AllowDenyCompose ==
    fd.done =>
        \A i \in 1..Len(fd.document) :
            LET f == fd.document[i]
            IN (f.cls # "ObjectIdField" /\ ~generate(fd.generator, f).none) =>
                   (f.name \in SeqToSet(Keys(fd.out)) <=>
                       /\ fd.fields.isNone \/ Contains(fd.fields, f.name)
                       /\ fd.exclude.isNone \/ ~Contains(fd.exclude, f.name))

----------------------------------------------------------------------------
(* Claims on _get_unique_filename (checked under SpecName) *)

\* C6: the name _get_unique_filename returns is not in the namespace; it is
\* the upload's name when that is free, and otherwise root_k.ext for the
\* smallest k >= 1 whose name is free. Two uploads in a row named photo.jpg
\* get two different names, and photo_1.jpg is the second when photo.jpg
\* and photo_1.jpg were both free at the start.
C6_UniqueFilename ==
    /\ \A i \in 1..Len(upl) :
           LET u == upl[i]
               file_root == splitext(u.name)[1]
               file_ext == splitext(u.name)[2]
           IN /\ u.filename \notin u.before
              /\ u.name \notin u.before => u.filename = u.name
              /\ u.name \in u.before =>
                     \E k \in 1..(Cardinality(u.before) + 1) :
                         /\ u.filename = Suffixed(file_root, k, file_ext)
                         /\ \A j \in 1..(k - 1) : Suffixed(file_root, j, file_ext) \in u.before
    /\ \A i \in 1..(Len(upl) - 1) :
           (/\ upl[i].name = "photo.jpg"
            /\ upl[i + 1].name = "photo.jpg"
            /\ upl[i].filename \in upl[i + 1].before)
           => /\ upl[i + 1].filename # upl[i].filename
              /\ ("photo.jpg" \notin upl[i].before /\ "photo_1.jpg" \notin upl[i + 1].before)
                     => upl[i + 1].filename = "photo_1.jpg"

\* photo.jpg was uploaded twice in a row into a namespace that had neither
\* name, and the second is stored as photo_1.jpg
C6_Witness ==
    /\ Len(upl) = 2
    /\ upl[1].name = "photo.jpg" /\ upl[1].filename = "photo.jpg"
    /\ upl[2].name = "photo.jpg" /\ upl[2].filename = "photo_1.jpg"
    /\ upl[1].filename \in upl[2].before

----------------------------------------------------------------------------
(* Claims on save and validation (checked under Spec) *)

\* the submission is validated and its error mapping has an entry
Rejected == form.live /\ form.is_bound /\ form.errors_set /\ ~NoErrorsIn(form)

\* C1: a save of a bound form whose error mapping is not empty ends in
\* ValueError, with commit true or false, and calls neither instance.save()
\* nor parent_document.update() nor parent_document.save(): the collection
\* and the parent's stored list are what they were when the form was built.
C1_NoSaveWithErrors ==
    (Rejected /\ outcome.call = "save") =>
        /\ outcome.raised = "ValueError"
        /\ outcome.saves = 0
        /\ outcome.updates = 0
        /\ outcome.parent_saves = 0
        /\ store = form.before.store
        /\ parent.pk = form.before.parent.pk
        /\ parent.stored = form.before.parent.stored

\* a form with an error was saved with commit=True into a collection that
\* has a document, and the save raised ValueError
C1_Witness ==
    /\ Rejected
    /\ outcome.call = "save"
    /\ outcome.commit
    /\ outcome.raised = "ValueError"
    /\ store # {}

\* C2: a save of an unbound form ends in ValueError: it never returns
\* normally and never calls instance.save(), whether the form was built
\* with an instance or without one.
C2_UnboundSaveRejected ==
    (form.live /\ ~form.is_bound /\ outcome.call = "save") =>
        /\ outcome.raised = "ValueError"
        /\ ~outcome.returned
        /\ outcome.saves = 0

\* C3: when a submission ends with an entry in the error mapping, the
\* collection and the GridFS namespace are what they were before the
\* submission: no blob is written and none is deleted.
C3_NoPartialCommit ==
    Rejected => /\ store = form.before.store
                /\ blobs = form.before.blobs

\* the pks of the documents of a collection
Pks(st) == {d["id"] : d \in st}

\* the submission for a new document is validated
ValidatedNew ==
    /\ form.live /\ form.is_bound /\ form.errors_set
    /\ ~IsEmbedded(formClass)
    /\ form.instance.data["id"] = NoPk

\* the instances saved as new documents with the value the form's instance
\* has for f, whose documents are in the collection the form was validated on
FirstSaved(f) ==
    {e \in inserted : /\ e.data[f.name] = form.instance.data[f.name]
                      /\ e.pk \in Pks(form.before.store)}

\* no document of the collection the form was validated on has the value
NoneStored(f) ==
    \A d \in form.before.store : d[f.name] # form.instance.data[f.name]

\* the form carries the field and Meta.fields / Meta.exclude do not rule it out
OnForm(f) ==
    /\ f.name \in FormFieldNames(formClass)
    /\ ~(Truthy(formClass.fields) /\ ~Contains(formClass.fields, f.name))
    /\ ~(Truthy(formClass.exclude) /\ Contains(formClass.exclude, f.name))

----------------------------------------------------------------------------
(* Claims on the embedded formset (checked under SpecFormSet) *)

\* the submission carries the three forms of a parent with three elements,
\* each element as the form shows it, and flags the second for deletion; it
\* is saved with commit=True
ThreeFormsSecondDeleted ==
    /\ formset.live
    /\ outcome.call = "formset.save"
    /\ outcome.commit
    /\ Len(formset.before.comments) = 3
    /\ Len(formset.forms) = 3
    /\ formset.DELETE = <<FALSE, TRUE, FALSE>>
    /\ \A i \in 1..3 :
           formset.forms[i].data = Resubmit(formClass, formset.before.comments[i])

\* C5: after such a save the parent's list is the first and the third
\* element, with the values they had, and the parent was saved once.
C5_FullReplacement ==
    ThreeFormsSecondDeleted =>
        /\ outcome.raised = ""
        /\ parent.stored = <<formset.before.comments[1], formset.before.comments[3]>>
        /\ parent.comments = parent.stored
        /\ outcome.parent_saves = 1

\* C22: the forms of an embedded formset are built without IndexError; the
\* form at an index below the length of the parent's list has that index as
\* its position and the element there as its instance, and a form at an
\* index from the length on has no position and a fresh instance.
C22_PositionMatching ==
    /\ ~(outcome.call = "_construct_form" /\ outcome.raised = "IndexError")
    /\ (formset.live /\ outcome.call = "") =>
           \A i \in 1..Len(formset.forms) :
               IF i <= Len(formset.before.comments)
               THEN /\ formset.forms[i].position = i - 1
                    /\ ~formset.forms[i].instance.isClass
                    /\ formset.forms[i].instance.data = formset.before.comments[i]
               ELSE /\ formset.forms[i].position = NoPosition
                    /\ formset.forms[i].instance.isClass

----------------------------------------------------------------------------
(* Claims on file fields (checked under SpecFile) *)

\* an edit form for a stored document was submitted without an upload for
\* picture, and validated
NoOpFileEdit ==
    /\ form.live /\ form.is_bound /\ form.errors_set
    /\ form.instance.data["id"] \in Pks(form.before.store)
    /\ form.data["picture"] = ""

\* the document the edit form was given
Edited == CHOOSE d \in form.before.store : d["id"] = form.instance.data["id"]

\* C7: after an edit without a new upload the instance holds the handle the
\* document had, the GridFS namespace is what it was (nothing written,
\* nothing deleted, no new name), no ObjectId was taken, and the document
\* a save stores has the same handle.
C7_NoOpFileEdit ==
    NoOpFileEdit =>
        /\ form.instance.data["picture"] = Edited["picture"]
        /\ blobs = form.before.blobs
        /\ nextId = form.before.nextId
        /\ \A d \in store : d["id"] = Edited["id"] => d["picture"] = Edited["picture"]

\* a document with a stored picture was edited without an upload and saved
C7_Witness ==
    /\ NoOpFileEdit
    /\ Edited["picture"].grid_id # NoPk
    /\ form.cleaned_data.value["picture"] = Handle(Edited["picture"])
    /\ outcome.call = "save"
    /\ outcome.saves = 1
    /\ form.data["title"] # Edited["title"]

----------------------------------------------------------------------------
(* Claims on _get_validation_exclusions (checked under Spec) *)

\* cleaned_data.get(f.name, None) at a call of _get_validation_exclusions
CleanedAt(call, f) ==
    IF f.name \in FormFieldNames(formClass) /\ call.cleaned_data.has[f.name]
    THEN call.cleaned_data.value[f.name]
    ELSE CleanedNone(f)

Validated ==
    /\ form.live /\ form.is_bound /\ form.errors_set
    /\ ~IsEmbedded(formClass)
    /\ Len(form.exclusions) = 2

\* C14: validating an edit of a stored document gives no uniqueness error on
\* a unique field whose value no other stored document has, the document's
\* own unchanged value included; validating a new instance gives the error
\* whenever a stored document has the value of a unique field that
\* validate_unique does not skip.
C14_NoSelfConflict ==
    Validated =>
        \A i \in 1..Len(formClass.document) :
            LET f == formClass.document[i]
                pk == form.instance.data["id"]
                same == {d \in form.before.store : d[f.name] = form.instance.data[f.name]}
            IN f.unique =>
                   /\ (pk # NoPk /\ \A d \in same : d["id"] = pk)
                          => AlreadyExists \notin SeqToSet(form.errors[f.name])
                   /\ (pk = NoPk /\ same # {}
                          /\ f.name \notin SeqToSet(form.exclusions[2].exclude))
                          => AlreadyExists \in SeqToSet(form.errors[f.name])

\* a stored document is edited with its own title next to another stored
\* document, and the form has no error
C14_Witness ==
    /\ Validated
    /\ NoErrorsIn(form)
    /\ Cardinality(form.before.store) = 2
    /\ \E d \in form.before.store :
           /\ d["id"] = form.instance.data["id"]
           /\ d["title"] = form.instance.data["title"]
           /\ form.data["title"] = d["title"]

\* C15: after one validation every field whose value fails the document's
\* field validation (and is not excluded from it) has an entry in the error
\* mapping, two failing fields both have one, and every unique field that
\* validate_unique checks and that has a conflict has one.
C15_ErrorsAccumulate ==
    Validated =>
        \A i \in 1..Len(formClass.document) :
            LET f == formClass.document[i]
                value == form.instance.data[f.name]
            IN /\ (f.name \notin SeqToSet(form.exclusions[1].exclude)
                      /\ ValidateFails(f, value))
                      => form.errors[f.name] # <<>>
               /\ (f.unique /\ f.name \notin SeqToSet(form.exclusions[2].exclude)
                      /\ Filtered(formClass, form.before.store, f, form.instance.data) # {})
                      => AlreadyExists \in SeqToSet(form.errors[f.name])

\* C16: when the form's field validation left an error, the instance has the
\* values it was given: those of the stored document for an edit, the
\* defaults for a new one.
C16_NoConstructWithErrors ==
    (Validated /\ \E k \in DOMAIN form.exclusions[1].errors :
                      form.exclusions[1].errors[k] # <<>>) =>
        form.instance.data =
            IF form.instance.data["id"] \in Pks(form.before.store)
            THEN CHOOSE d \in form.before.store : d["id"] = form.instance.data["id"]
            ELSE Defaults(formClass.document)

\* C13: the list _get_validation_exclusions returns has exactly the schema
\* fields that (a) are not among the form's fields, or (b) are outside
\* Meta.fields or inside Meta.exclude, or (c) have an entry in the error
\* mapping, or (d) are not required and have an empty cleaned value; so a
\* required field on the form, without error and with an empty cleaned value,
\* is not on the list. Checked under SpecOptions.
C13_ExclusionPolicy ==
    form.live =>
        \A n \in 1..Len(form.exclusions) :
            LET call == form.exclusions[n]
            IN SeqToSet(call.exclude) =
                   {f.name : f \in {g \in SeqToSet(formClass.document) :
                       \/ g.name \notin FormFieldNames(formClass)
                       \/ ~formClass.fields.isNone /\ ~Contains(formClass.fields, g.name)
                       \/ ~formClass.exclude.isNone /\ Contains(formClass.exclude, g.name)
                       \/ call.errors[g.name] # <<>>
                       \/ ~g.required /\ IsEmptyCleaned(g, CleanedAt(call, g))}}

----------------------------------------------------------------------------
(* Claims on the formset of documents (checked under SpecDocumentFormSet) *)

\* the forms formset.save goes through, but for the forms of the queryset
\* with the DELETE box checked
Kept ==
    {i \in 1..Len(formset.forms) :
        IF i <= formset.initial_form_count THEN ~formset.DELETE[i]
        ELSE has_changed(formClass, formset.forms[i])}

\* C20: after formset.save(commit=True) a document of the queryset whose form
\* had the DELETE box checked is not in the collection and is not saved
\* again: the returned list and the documents added to the collection are
\* at most one for each of the other forms gone through.
C20_DeleteFlag ==
    (formset.live /\ outcome.call = "formset.save" /\ outcome.commit
        /\ outcome.raised = "") =>
        /\ \A i \in 1..formset.initial_form_count : formset.DELETE[i] =>
               \A d \in store : d["id"] # formset.before.queryset[i]["id"]
        /\ Len(formset.saved) <= Cardinality(Kept)
        /\ Cardinality(store \ formset.before.store) <= Cardinality(Kept)

\* a form of the formset has an error
FormWithErrors ==
    \E i \in 1..Len(formset.forms) :
        formset.forms[i].errors_set /\ ~NoErrorsIn(formset.forms[i])

\* C21: after formset.save(commit=True) on a formset with a form that has an
\* error, the collection is what the request found: no document of the
\* formset has been saved or deleted.
C21_ErrorBlocksSave ==
    (formset.live /\ outcome.call = "formset.save" /\ outcome.commit
        /\ FormWithErrors) =>
        store = formset.before.store

----------------------------------------------------------------------------
(* Claims on the edits of a stored file (checked under SpecEdits) *)

\* C18: when an edit that uploads a picture has been saved, the blob the
\* document had before is gone and GridFS holds the blobs of the stored
\* documents' pictures and no other: one blob for the field, none left over
\* from an earlier edit.
C18_NoOrphanBlob ==
    (form.live /\ form.data["picture"] # "" /\ outcome.call = "save"
        /\ outcome.saves = 1 /\ outcome.raised = "") =>
        /\ \A b \in blobs : b.grid_id # Edited["picture"].grid_id
        /\ {b.grid_id : b \in blobs} = {d["picture"].grid_id : d \in store}
        /\ Cardinality(blobs) = 1

----------------------------------------------------------------------------
(* Claims on construct_instance (checked under SpecConstruct) *)

\* construct_instance has returned
Constructed == form.live /\ outcome.call = "construct_instance"

\* the instance the form was given
Given == IF store = {} THEN Defaults(formClass.document) ELSE CHOOSE d \in store : TRUE

\* the field has a cleaned value and the restriction of fields / exclude
\* lets it through
Restricted(f) ==
    /\ InCleaned(formClass, form, f.name)
    /\ formClass.fields.isNone \/ Contains(formClass.fields, f.name)
    /\ formClass.exclude.isNone \/ ~Contains(formClass.exclude, f.name)

\* C17: every setattr of a value that is no file comes before the first
\* delete or put of a blob; the values that are no file, have a cleaned value
\* and pass the restriction are all set; an ObjectId field, a field without
\* cleaned value and a field outside the restriction keep the instance's value.
C17_FilesDeferred ==
    Constructed =>
        /\ \A i, j \in 1..Len(upl) :
               (upl[i].op = "setattr" /\ upl[j].op # "setattr") => i < j
        /\ \A k \in 1..Len(formClass.document) :
               LET f == formClass.document[k]
                   set == \E i \in 1..Len(upl) : upl[i] = Event("setattr", f.name, NoPk)
               IN IF f.cls # "ObjectIdField" /\ Restricted(f)
                  THEN ~IsFileBearing(f) =>
                           /\ set
                           /\ form.instance.data[f.name] = form.cleaned_data.value[f.name]
                  ELSE /\ ~set
                       /\ form.instance.data[f.name] = Given[f.name]

\* caption, declared after the file fields, was set before the cover was put
C17_Witness ==
    /\ Constructed
    /\ Len(upl) >= 2
    /\ upl[1].op = "setattr"
    /\ \E i \in 1..Len(upl) : upl[i] = Event("setattr", "caption", NoPk)
    /\ \E i \in 1..Len(upl) : upl[i].op = "put" /\ upl[i].name = "cover"
    /\ form.instance.data["title"] = Given["title"]

\* a handle put by the call: no handle of the given instance, and in GridFS
Fresh(g) == g \notin HandlesOf(Given) /\ \E b \in blobs : b.grid_id = g

\* the indexes of the uploads of a cleaned list
UploadedAt(uploads) == {i \in 1..Len(uploads) : uploads[i].kind = "upload"}

\* C19: for a list of files, an upload at an index inside the list replaces
\* that element, an upload at an index past the list is appended, and the
\* elements without upload stay; for a map of files, an upload under a key
\* sets that key's entry, new or not, and the other entries stay.
C19_ListAndMapUploads ==
    Constructed =>
        /\ Restricted(FieldOf(formClass.document, "pictures")) =>
               LET old == Given["pictures"]
                   new == form.instance.data["pictures"]
                   at == UploadedAt(form.cleaned_data.value["pictures"])
               IN /\ Len(new) = Len(old) + Cardinality({i \in at : i > Len(old)})
                  /\ \A i \in 1..Len(old) :
                         IF i \in at THEN Fresh(new[i].grid_id) ELSE new[i] = old[i]
                  /\ \A i \in (Len(old) + 1)..Len(new) : Fresh(new[i].grid_id)
                  /\ \A i, j \in 1..Len(new) :
                         (i # j /\ Fresh(new[i].grid_id)) => new[i] # new[j]
        /\ Restricted(FieldOf(formClass.document, "files")) =>
               LET old == Given["files"]
                   new == form.instance.data["files"]
                   uploads == form.cleaned_data.value["files"]
                   keys == {uploads[i].key : i \in {j \in 1..Len(uploads) :
                                                       uploads[j].upload.kind = "upload"}}
               IN /\ {e.key : e \in new} = {e.key : e \in old} \cup keys
                  /\ Cardinality(new) = Cardinality({e.key : e \in new})
                  /\ \A e \in new :
                         IF e.key \in keys THEN Fresh(e.grid_id) ELSE e \in old

\* a list of one file got an upload for its element and one past it, and a
\* map with the key k1 got an upload under k1 and one under k2
C19_Witness ==
    /\ Constructed
    /\ formClass.fields.isNone /\ formClass.exclude.isNone
    /\ Len(Given["pictures"]) = 1
    /\ form.cleaned_data.value["pictures"] = <<Upload("photo.jpg"), Upload("photo.jpg")>>
    /\ Len(form.instance.data["pictures"]) = 2
    /\ Given["files"] # {}
    /\ Len(form.cleaned_data.value["files"]) = 2
    /\ Cardinality(form.instance.data["files"]) = 2
    /\ \A e \in form.instance.data["files"] : Fresh(e.grid_id)

----------------------------------------------------------------------------
(* Claims on unique_with a list of references (checked under SpecUnique) *)

\* C10: validate_unique reports tag only if another stored document has the
\* tag, a list with every reference of the instance's list, and of the same
\* length; a stored list with all the references and another length is no
\* conflict.
C10_SameLength ==
    (form.live /\ form.is_bound /\ form.errors_set) =>
        (AlreadyExists \in SeqToSet(form.errors["tag"]) =>
            \E d \in form.before.store :
                /\ d["id"] # form.instance.data["id"]
                /\ d["tag"] = form.instance.data["tag"]
                /\ SeqToSet(form.instance.data["refs"]) \subseteq SeqToSet(d["refs"])
                /\ Len(d["refs"]) = Len(form.instance.data["refs"]))

\* a stored document has the tag and two references; a form with the tag
\* and one of the two is validated without an error
C10_Witness ==
    /\ form.live /\ form.is_bound /\ form.errors_set
    /\ outcome.raised = ""
    /\ NoErrorsIn(form)
    /\ Len(form.instance.data["refs"]) = 1
    /\ \E d \in form.before.store :
           /\ d["tag"] = form.instance.data["tag"]
           /\ Len(d["refs"]) = 2
           /\ SeqToSet(form.instance.data["refs"]) \subseteq SeqToSet(d["refs"])

----------------------------------------------------------------------------
(* Claims on concurrent requests (checked under SpecRace) *)

\* C23: a request whose form was cleaned without errors is not held back
\* by this layer, whatever the other request has stored since: its save
\* calls instance.save(), which ends normally with the document in the
\* collection unless the database itself refuses it.
C23_NoLock ==
    \A r \in Requests :
        (outcome[r].call = "save" /\ form[r].passed) =>
            /\ outcome[r].saves = 1
            /\ outcome[r].raised \in {"", "NotUniqueError"}
            /\ outcome[r].raised = "" =>
                   \E d \in store :
                       /\ d["id"] = outcome[r].pk
                       /\ d["title"] = form[r].form.instance.data["title"]

\* both requests found an empty collection and no conflict, both are
\* saved, and the collection holds two articles with the same title
C23_Witness ==
    /\ \A r \in Requests :
           /\ outcome[r].call = "save" /\ outcome[r].raised = ""
           /\ form[r].passed
           /\ form[r].form.before.store = {}
    /\ \E d \in store, e \in store :
           d["id"] # e["id"] /\ d["title"] = e["title"]

----------------------------------------------------------------------------
(* Claims on the form class (checked under SpecClass) *)

\* the names of Meta.fields that give no form field: no schema field, or one
\* the generator has no form field for
Unknown(statement) ==
    {n \in SeqToSet(statement.fields.names) :
        \/ n \notin FieldNames(statement.document)
        \/ n \in statement.generator}

\* C11: building a class whose Meta.fields names a field that gives no form
\* field and is not declared raises FieldError naming all such names; a field
\* the generator gives nothing for and Meta.fields does not name is dropped
\* without an error.
C11_UnknownFieldsRejected ==
    fd.done =>
        LET offending == Unknown(fd) \ SeqToSet(Keys(fd.declared))
        IN /\ offending # {} => /\ fd.raised = "FieldError"
                                /\ fd.missing_fields = offending
           /\ offending = {} => /\ fd.raised = ""
                                /\ fd.generator \cap SeqToSet(Keys(fd.base_fields)) = {}

----------------------------------------------------------------------------
(* Claims on _delete_before_save (checked under Spec) *)

\* this step is a save(commit=True) that called instance.save() and returned,
\* on a cleaned document form, which has a _delete_before_save list
StrippedSave ==
    /\ ~IsEmbedded(formClass)
    /\ form.live /\ form.errors_set /\ form.has_delete_before_save
    /\ outcome.call # "save"
    /\ outcome'.call = "save" /\ outcome'.commit
    /\ outcome'.saves = 1 /\ outcome'.raised = ""

\* the document stored under pk
StoredAt(st, pk) == CHOOSE d \in st : d["id"] = pk

\* C26: when save_instance commits a form with a _delete_before_save list,
\* the fields of the list are not part of what instance.save() writes (the
\* stored document keeps what it had for them, or gets nothing for them when
\* it is new), every other field is written as the instance has it, and when
\* the call has returned the instance's data is what it was before the call,
\* the fields of the list included.
C26_StrippedAroundSave ==
    [][StrippedSave =>
        /\ form'.instance = form.instance
        /\ \E d \in store' : d["id"] = outcome'.pk
        /\ \A n \in FieldNames(formClass.document) \ {"id"} :
               IF n \in SeqToSet(form.delete_before_save)
               THEN StoredAt(store', outcome'.pk)[n] =
                        IF \E d \in store : d["id"] = outcome'.pk
                        THEN StoredAt(store, outcome'.pk)[n]
                        ELSE Default(FieldOf(formClass.document, n))
               ELSE StoredAt(store', outcome'.pk)[n] = form.instance.data[n]]_vars

\* an edit whose instance has an empty slug was saved over a document with a
\* slug: slug is on the list, the document keeps its slug, the instance its
\* empty value
C26_Witness ==
    /\ formClass = ArticleForm
    /\ form.live /\ form.has_delete_before_save
    /\ outcome.call = "save" /\ outcome.commit
    /\ outcome.saves = 1 /\ outcome.raised = ""
    /\ "slug" \in SeqToSet(form.delete_before_save)
    /\ \E d \in store :
           /\ d["id"] = form.instance.data["id"]
           /\ d["slug"] = "a"
           /\ form.instance.data["slug"] # "a"

----------------------------------------------------------------------------
(* Claims on EmbeddedDocumentForm.save (checked under Spec) *)

\* save was called on an embedded form without errors
EmbeddedSaved ==
    /\ IsEmbedded(formClass)
    /\ form.live
    /\ outcome.call = "save"
    /\ NoErrorsIn(form)

\* the database's list of the parent is what it was, but for the place p
StoredAsBeforeBut(p) ==
    /\ Len(parent.stored) = Len(form.before.parent.stored)
    /\ \A i \in 1..Len(parent.stored) :
           i # p => parent.stored[i] = form.before.parent.stored[i]

\* save(commit=False) makes no update and returns the instance
C25_Uncommitted ==
    (EmbeddedSaved /\ ~outcome.commit) =>
        /\ outcome.raised = "" /\ outcome.returned
        /\ outcome.updates = 0
        /\ parent.stored = form.before.parent.stored

\* save(commit=True) makes one update: without position it appends the
\* instance, with position p it replaces the element at p, and a parent
\* the update fails for gives OperationError and an unchanged list
C25_Committed ==
    (EmbeddedSaved /\ outcome.commit) =>
        /\ outcome.updates = 1
        /\ outcome.raised \in {"", "OperationError"}
        /\ form.before.parent.pk = NoPk => outcome.raised = "OperationError"
        /\ outcome.raised = "OperationError" => StoredAsBeforeBut(0)
        /\ (outcome.raised = "" /\ form.position = NoPosition) =>
               parent.stored = Append(form.before.parent.stored, form.instance.data)
        /\ (outcome.raised = "" /\ form.position # NoPosition) =>
               /\ StoredAsBeforeBut(form.position + 1)
               /\ parent.stored[form.position + 1] = form.instance.data

\* C25: save of an embedded form without errors: with commit=False the
\* parent, in memory and in the database, is what the request found and the
\* instance is returned; with commit=True and no position one element is
\* appended to the parent's list, with position p the element at p alone is
\* replaced, and a failing update is raised as OperationError.
C25_EmbeddedSaveFrame ==
    /\ C25_Uncommitted
    /\ C25_Committed
    /\ (EmbeddedSaved /\ ~outcome.commit) => parent = form.before.parent

----------------------------------------------------------------------------
(* Claims on a form class without document (checked under SpecInstantiate) *)

\* C24: the class statement of a form class without Meta.document raises an
\* error; no form of such a class is ever made, with or without instance, and
\* no error is raised for it as late as that.
C24_NoDocumentRejected ==
    fd.document = NoDocument =>
        /\ fd.done => fd.raised # ""
        /\ ~fd.instantiated

====
